---- MODULE Spec2Model ----
(***************************************************************************)
(* The WebSocket relay of velocity-be: the Hub (hub.go), the two pumps of  *)
(* a Client (client.go) and the HTTP handlers that admit connections and   *)
(* delete streams (handlers.go), with the streams collection reduced to    *)
(* the fields the handlers read.                                           *)
(***************************************************************************)
EXTENDS Integers, Sequences, FiniteSets, TLC

(***************************************************************************)
(* The universe.  A Client struct has its StreamID and IsMobile fixed at   *)
(* construction, so each name of the pool stands for one connection        *)
(* attempt with its role and target stream.                                *)
(***************************************************************************)
StreamIDs == {"abc", "xyz"}

Mobiles == {"m1", "m2"}

Viewers == {"v1", "v2", "v3"}

Clients == Mobiles \cup Viewers

\* Client.IsMobile
IsMobile(c) == c \in Mobiles

\* Client.StreamID
StreamID(c) == IF c = "v3" THEN "xyz" ELSE "abc"

\* the nil *Client
Nil == "nil"

\* DELETE /api/streams/:streamId requests, each with its path parameter
DeleteReqs == {"d1"}

DeleteTarget(d) == "abc"

\* the DELETE requests of the behaviours with concurrent deletions: d1 and
\* a second request for the same stream
AllDeleteReqs == DeleteReqs \cup {"d2"}

\* telemetry payloads a mobile app may send
Payloads == {"p1"}

\* capacity of Client.Send, make(chan []byte, 256), scaled down
SendCap == 2

\* the clock runs from 0 to MaxTime, in units of InactiveStreamTimeout
MaxTime == 2

\* updateLastConnectionTime goroutines of one stream the sweep may have
\* waiting at a time
MaxTouch == 1

\* const InactiveStreamTimeout = 6 * time.Hour, the unit of the clock
InactiveStreamTimeout == 1

\* a timestamp field the document does not have (lastConnectionAt: nil)
NoTime == -1

\* the latestData of a document no telemetry was stored in
NoData == "nodata"

\* the connection attempts one behaviour may hold: two producers and a viewer
\* of one stream, a producer and two viewers, or viewers of two streams
Casts == {{"m1", "m2", "v1"}, {"m1", "v1", "v2"}, {"m1", "v1", "v3"}}

VARIABLES
    db,          \* streams collection: streamId -> "absent", "active", "deleted"
    Streams,     \* Hub.Streams: a map streamId -> StreamHub
    hub,         \* the request Hub.Run has received and is processing
    pc,          \* per client: handler, then ReadPump position
    bcast,       \* per client: the BroadcastToViewers call in progress
    Send,        \* per client: content of the Send channel
    sendClosed,  \* per client: "no", or which code closed the Send channel
    connClosed,  \* per client: Conn.Close() has been called
    wexit,       \* per client: WritePump has returned
    notified,    \* per client: WritePump wrote a stream_closed message to the socket
    dpc,         \* per delete request: position in DeleteStreamHandler
    panic,       \* a Go runtime panic happened (close of or send on a closed
                 \* channel, nil dereference)
    now,         \* time.Now()
    createdAt,   \* streams collection: streamId -> createdAt
    lastConnectionAt,  \* streams collection: streamId -> lastConnectionAt or NoTime
    touch,       \* per stream: updateLastConnectionTime goroutines not yet run
    sweep,       \* cleanupInactiveStreams: position, cutoffTime, streamsToCancel
    updates,     \* per stream: payloads of the updateStreamData goroutines not yet run
    latestData,  \* streams collection: streamId -> latestData or NoData
    joinLog,     \* per client: logStreamJoin goroutine and Client.JoinLogID
    leaveLog,    \* per client: logStreamLeave goroutine and its UpdateOne
    hook,        \* the refs of useWebSocket and the readyState of its sockets
    lk           \* h.mu, streamHub.mu, and what each goroutine has still to
                 \* do of the Hub operation it is in

\* the timestamps of the store and what reads them
tvars == <<now, createdAt, lastConnectionAt, touch, sweep>>

\* the goroutines that write the telemetry and the join logs, and what they
\* write
avars == <<updates, latestData, joinLog, leaveLog>>

\* the web viewer, and the locks of the hub taken one at a time
xvars == <<hook, lk>>

vars == <<db, Streams, hub, pc, bcast, Send, sendClosed, connClosed, wexit,
          notified, dpc, panic, now, createdAt, lastConnectionAt, touch, sweep,
          updates, latestData, joinLog, leaveLog, hook, lk>>

----------------------------------------------------------------------------
(* Wire messages: models.WebSocketMessage{Type, Payload} after json.Marshal. *)

\* models.WebSocketMessage with a models.ViewerCountUpdate payload
ViewerCountMsg(streamID, count, newUser) ==
    [Type |-> "viewer_count", StreamID |-> streamID, ViewerCount |-> count,
     NewUser |-> newUser, Data |-> "", Valid |-> TRUE]

\* a stream_data envelope as the mobile app sends it
StreamDataMsg(p) ==
    [Type |-> "stream_data", StreamID |-> "", ViewerCount |-> 0,
     NewUser |-> FALSE, Data |-> p, Valid |-> TRUE]

\* an envelope of a type the relay does not know
OtherMsg ==
    [Type |-> "hello", StreamID |-> "", ViewerCount |-> 0,
     NewUser |-> FALSE, Data |-> "", Valid |-> TRUE]

\* bytes json.Unmarshal rejects
GarbageMsg ==
    [Type |-> "", StreamID |-> "", ViewerCount |-> 0,
     NewUser |-> FALSE, Data |-> "", Valid |-> FALSE]

\* what a peer may write to its socket
Inbound == {StreamDataMsg(p) : p \in Payloads} \cup {OtherMsg, GarbageMsg}

\* no BroadcastToViewers call in progress
NoBcast == [ptr |-> "none", msg |-> GarbageMsg]

----------------------------------------------------------------------------
(* Go maps and channels.                                                   *)

\* mutant of MapPut: the map is replaced by one with the key k alone
MapPutAlone(m, k, v) == [x \in {k} |-> v]

\* m[k] = v
MapPut(m, k, v) == [x \in DOMAIN m \cup {k} |-> IF x = k THEN v ELSE m[x]]

\* delete(m, k)
MapDelete(m, k) == [x \in DOMAIN m \ {k} |-> m[x]]

\* mutant of TrySend: the message goes to the front of the channel
TrySendFront(S, c, m) ==
    IF Len(S[c]) < SendCap THEN [S EXCEPT ![c] = <<m>> \o @] ELSE S

\* mutant of TrySend: a full channel gives up its oldest message
TrySendDropOldest(S, c, m) ==
    IF Len(S[c]) < SendCap THEN [S EXCEPT ![c] = Append(@, m)]
    ELSE [S EXCEPT ![c] = Append(Tail(@), m)]

\* select { case ch <- m: default: } on the channel of client c, given the
\* channel contents S: enqueue when there is room, drop the new message otherwise
TrySend(S, c, m) ==
    IF Len(S[c]) < SendCap THEN [S EXCEPT ![c] = Append(@, m)] ELSE S

\* mutant of TrySendAll: the loop sends to every client there is
TrySendAllClients(S, cs, m) ==
    [c \in Clients |-> TrySend(S, c, m)[c]]

\* mutant of TrySendAll: a full channel ends the loop and nothing is sent
TrySendAllOrNone(S, cs, m) ==
    IF \E c \in cs : Len(S[c]) >= SendCap THEN S
    ELSE [c \in Clients |-> IF c \in cs THEN TrySend(S, c, m)[c] ELSE S[c]]

\* mutant of TrySendAll: every message is sent twice
TrySendAllTwice(S, cs, m) ==
    [c \in Clients |-> IF c \in cs THEN TrySend(TrySend(S, c, m), c, m)[c]
                       ELSE S[c]]

\* TrySend to every client of the set cs (the channels are distinct)
TrySendAll(S, cs, m) ==
    [c \in Clients |-> IF c \in cs THEN TrySend(S, c, m)[c] ELSE S[c]]

\* a send on a closed channel panics, also inside a select
SendPanics(cs) == \E c \in cs : sendClosed[c] # "no"

\* close(c.Send) for every client of cs, noting which code closed it
CloseAll(cs, by) ==
    [c \in Clients |-> IF c \in cs /\ sendClosed[c] = "no" THEN by
                       ELSE sendClosed[c]]

\* close of a closed channel panics
ClosePanics(cs) == \E c \in cs : sendClosed[c] # "no"

----------------------------------------------------------------------------
(* hub.go: the Hub.                                                        *)

\* &StreamHub{StreamID: ..., Viewers: make(map[*Client]bool)}
NewStreamHub == [Broadcaster |-> Nil, Viewers |-> {}]

\* streamHub, exists := h.Streams[client.StreamID], created when absent
StreamHubOf(streamID) ==
    IF streamID \in DOMAIN Streams THEN Streams[streamID] ELSE NewStreamHub

\* mutant of RegisteredHub: a producer registration starts a fresh StreamHub
RegisteredHubReplacing(client) ==
    LET sh == StreamHubOf(StreamID(client))
    IN  IF IsMobile(client)
        THEN [NewStreamHub EXCEPT !.Broadcaster = client]
        ELSE [sh EXCEPT !.Viewers = @ \cup {client}]

\* mutant of RegisteredHub: a viewer is installed as the broadcaster too
RegisteredHubViewerAsBroadcaster(client) ==
    LET sh == StreamHubOf(StreamID(client))
    IN  IF IsMobile(client)
        THEN [sh EXCEPT !.Broadcaster = client]
        ELSE [sh EXCEPT !.Viewers = @ \cup {client}, !.Broadcaster = client]

\* mutant of RegisteredHub: a viewer is not added while the channel of the
\* broadcaster is full
RegisteredHubUnlessFull(client) ==
    LET sh == StreamHubOf(StreamID(client))
    IN  IF IsMobile(client)
        THEN [sh EXCEPT !.Broadcaster = client]
        ELSE IF sh.Broadcaster # Nil /\ Len(Send[sh.Broadcaster]) >= SendCap
             THEN sh
             ELSE [sh EXCEPT !.Viewers = @ \cup {client}]

\* the StreamHub once registerClient has installed the client in it
RegisteredHub(client) ==
    LET sh == StreamHubOf(StreamID(client))
    IN  IF IsMobile(client)
        THEN [sh EXCEPT !.Broadcaster = client]
        ELSE [sh EXCEPT !.Viewers = @ \cup {client}]

\* mutant of UnregisteredHub: a departing viewer stays in Viewers
UnregisteredHubKeepsViewer(client) ==
    LET sh == StreamHubOf(StreamID(client))
    IN  IF IsMobile(client)
        THEN [Broadcaster |-> Nil, Viewers |-> {}]
        ELSE sh

\* the StreamHub once unregisterClient has removed the client from it
UnregisteredHub(client) ==
    LET sh == StreamHubOf(StreamID(client))
    IN  IF IsMobile(client)
        THEN [Broadcaster |-> Nil, Viewers |-> {}]
        ELSE [sh EXCEPT !.Viewers = @ \ {client}]

\* mutant of IsEmpty: the nil test inverted
IsEmptyInvertedNilTest(streamHub) ==
    streamHub.Broadcaster # Nil /\ streamHub.Viewers = {}

\* isEmpty := streamHub.Broadcaster == nil && len(streamHub.Viewers) == 0
IsEmpty(streamHub) == streamHub.Broadcaster = Nil /\ streamHub.Viewers = {}

\* mutant of ViewerCountOf: the broadcaster counted as a viewer
ViewerCountWithBroadcaster(streamHub) ==
    Cardinality((streamHub.Viewers \cup {streamHub.Broadcaster}) \ {Nil})

\* the count registerClient and unregisterClient report: len(streamHub.Viewers)
\* read after the change, under the same streamHub.mu critical section
ViewerCountOf(streamHub) == Cardinality(streamHub.Viewers)

\* mutant of NotifyBroadcasterViewerCount: every producer connection of the
\* stream is notified, not the installed one alone
NotifyAllProducers(S, streamHub, streamID, count, newUser) ==
    TrySendAll(S, {c \in Mobiles : StreamID(c) = streamID /\ pc[c] \in {"reading", "bcast"}},
               ViewerCountMsg(streamID, count, newUser))

\* notifyBroadcasterViewerCount: the Send channels afterwards
NotifyBroadcasterViewerCount(S, streamHub, streamID, count, newUser) ==
    IF streamHub.Broadcaster = Nil THEN S
    ELSE TrySend(S, streamHub.Broadcaster,
                 ViewerCountMsg(streamID, count, newUser))

\* the channels notifyBroadcasterViewerCount sends on
NotifyTargets(streamHub) ==
    IF streamHub.Broadcaster = Nil THEN {} ELSE {streamHub.Broadcaster}

\* a StreamHub taken out of h.Streams stays referenced by the
\* BroadcastToViewers calls that looked it up before
Detach(streamID) ==
    [c \in Clients |->
        IF bcast[c].ptr = "live" /\ StreamID(c) = streamID
        THEN [bcast[c] EXCEPT !.ptr = "detached"] ELSE bcast[c]]

\* Hub.registerClient
registerClient(client) ==
    LET sid == StreamID(client)
        sh  == RegisteredHub(client)
    IN  /\ Streams' = MapPut(Streams, sid, sh)
        /\ IF IsMobile(client)
           THEN UNCHANGED <<Send, panic, joinLog>>
           ELSE /\ joinLog' = [joinLog EXCEPT ![client] = "pending"]
                /\ Send' = NotifyBroadcasterViewerCount(
                               Send, sh, sid, ViewerCountOf(sh), TRUE)
                /\ panic' = (panic \/ SendPanics(NotifyTargets(sh)))
        /\ UNCHANGED <<sendClosed, connClosed, bcast>>

\* mutant of UnregisterCloses: the departing broadcaster closes no viewer
UnregisterClosesSelfOnly(client) ==
    StreamHubOf(StreamID(client)).Viewers \cap {client}

\* the channels unregisterClient closes
UnregisterCloses(client) ==
    LET sh == StreamHubOf(StreamID(client))
    IN  IF IsMobile(client) THEN sh.Viewers ELSE sh.Viewers \cap {client}

\* mutant of Spawned: two goroutines started
SpawnedTwice(streamID) == [touch EXCEPT ![streamID] = @ + 2]

\* go updateLastConnectionTime(streamID)
Spawned(streamID) == [touch EXCEPT ![streamID] = @ + 1]

\* Hub.unregisterClient
unregisterClient(client) ==
    LET sid == StreamID(client)
        sh  == UnregisteredHub(client)
        cs  == UnregisterCloses(client)
    IN  IF sid \notin DOMAIN Streams
        THEN UNCHANGED <<Streams, Send, sendClosed, connClosed, bcast, panic,
                         touch, leaveLog>>
        ELSE /\ sendClosed' = CloseAll(cs, IF IsMobile(client)
                                           THEN "producer_left"
                                           ELSE "unregister")
             /\ IF IsMobile(client)
                THEN /\ Send' = Send
                     /\ panic' = (panic \/ ClosePanics(cs))
                     /\ UNCHANGED leaveLog
                ELSE /\ leaveLog' = [leaveLog EXCEPT ![client] = "pending"]
                     /\ Send' = NotifyBroadcasterViewerCount(
                                    Send, sh, sid, ViewerCountOf(sh), FALSE)
                     /\ panic' = (panic \/ ClosePanics(cs)
                                        \/ SendPanics(NotifyTargets(sh)))
             /\ IF IsEmpty(sh)
                THEN /\ Streams' = MapDelete(Streams, sid)
                     /\ bcast' = Detach(sid)
                     /\ touch' = Spawned(sid)
                ELSE /\ Streams' = MapPut(Streams, sid, sh)
                     /\ UNCHANGED <<bcast, touch>>
             /\ UNCHANGED connClosed

\* mutant of CloseStreamCloses: every connection of the stream that was
\* started is closed, in the session or not
CloseStreamClosesEveryone(streamID) ==
    {c \in Clients : StreamID(c) = streamID /\ pc[c] \in {"reading", "bcast", "exiting", "done"}}

\* mutant of CloseStreamCloses: the broadcaster is left open
CloseStreamClosesViewersOnly(streamID) == StreamHubOf(streamID).Viewers

\* the clients CloseStream closes: the broadcaster and every viewer
CloseStreamCloses(streamID) ==
    LET sh == StreamHubOf(streamID)
    IN  NotifyTargets(sh) \cup sh.Viewers

\* Hub.CloseStream
CloseStream(streamID) ==
    LET cs == CloseStreamCloses(streamID)
    IN  IF streamID \notin DOMAIN Streams
        THEN UNCHANGED <<Streams, Send, sendClosed, connClosed, bcast, panic>>
        ELSE /\ sendClosed' = CloseAll(cs, "close_stream")
             /\ panic' = (panic \/ ClosePanics(cs))
             /\ connClosed' = [c \in Clients |-> connClosed[c] \/ c \in cs]
             /\ Streams' = MapDelete(Streams, streamID)
             /\ bcast' = Detach(streamID)
             /\ UNCHANGED Send

\* Hub.GetViewerCount
GetViewerCount(streamID) ==
    IF streamID \in DOMAIN Streams
    THEN Cardinality(Streams[streamID].Viewers) ELSE 0

\* Hub.HasActiveConnections
HasActiveConnections(streamID) ==
    IF streamID \notin DOMAIN Streams THEN FALSE
    ELSE Streams[streamID].Broadcaster # Nil
         \/ Cardinality(Streams[streamID].Viewers) > 0

\* mutant of BroadcastTargets: the loop also reaches the broadcaster
BroadcastTargetsWithBroadcaster(c) ==
    IF bcast[c].ptr = "live"
    THEN Streams[StreamID(c)].Viewers \cup NotifyTargets(Streams[StreamID(c)])
    ELSE {}

\* the viewers the loop of BroadcastToViewers ranges over, for the StreamHub
\* the call looked up
BroadcastTargets(c) ==
    IF bcast[c].ptr = "live" THEN Streams[StreamID(c)].Viewers ELSE {}

----------------------------------------------------------------------------
(* www/src/hooks/useWebSocket.ts: the refs of the hook of the web viewer.   *)

\* how many WebSocket objects the hook may create
MaxSockets == 3

\* the WebSocket objects, in the order of their creation
Sockets == 1..MaxSockets

\* wsRef.current is null
NoSocket == 0

\* connect() calls, and onclose handlers, that may wait for checkStreamStatus
\* at the same time
MaxCalls == 2

\* reconnect timers that may be pending at the same time
MaxTimers == 2

\* if (reconnectAttempts.current < 5)
MaxReconnectAttempts == 5

\* the refs as useRef creates them, no effect run yet, no socket created;
\* connects and closes count the connect() calls and the onclose handlers
\* suspended in await checkStreamStatus(); timers counts the pending
\* reconnect timers and timerRef tells whether reconnectTimeoutRef refers to
\* one of them
HookInit ==
    [isMountedRef |-> FALSE, isConnectingRef |-> FALSE,
     isStreamClosedRef |-> FALSE, wsRef |-> NoSocket, reconnectAttempts |-> 0,
     connectTimeoutRef |-> FALSE, timers |-> 0, timerRef |-> FALSE,
     connects |-> 0, closes |-> 0,
     readyState |-> [w \in Sockets |-> "none"]]

----------------------------------------------------------------------------
(* hub.go at the level of its locks and channels: h.mu, streamHub.mu and    *)
(* the sends on h.Register and h.Unregister.                                *)

\* the goroutines: Hub.Run, the handler and pumps of a mobile and of a
\* viewer connection, a caller of CloseStream, and a caller of the queries
Threads == {"run", "mobile", "viewer", "delete", "query"}

\* a sync.RWMutex nobody holds: w is the goroutine that called Lock, which
\* keeps new readers out from then on, and readers are the goroutines
\* between RLock and RUnlock
FreeMutex == [w |-> Nil, readers |-> {}]

\* no goroutine is in a Hub operation: ops is what each goroutine has still
\* to do of the operation it is in
LockInit ==
    [ops |-> [t \in Threads |-> << >>], h |-> FreeMutex, s |-> FreeMutex]

----------------------------------------------------------------------------
\* no cleanupInactiveStreams call in progress
NoSweep == [pc |-> "idle", cutoffTime |-> NoTime, streamsToCancel |-> << >>]

\* NewHub, and no request served yet
Init ==
    /\ db = [s \in StreamIDs |-> "absent"]
    /\ Streams = [s \in {} |-> NewStreamHub]
    /\ hub = <<"idle", Nil>>
    /\ pc = [c \in Clients |-> "none"]
    /\ bcast = [c \in Clients |-> NoBcast]
    /\ Send = [c \in Clients |-> << >>]
    /\ sendClosed = [c \in Clients |-> "no"]
    /\ connClosed = [c \in Clients |-> FALSE]
    /\ wexit = [c \in Clients |-> FALSE]
    /\ notified = [c \in Clients |-> FALSE]
    /\ dpc = [d \in AllDeleteReqs |-> "idle"]
    /\ panic = FALSE
    /\ now = 0
    /\ createdAt = [s \in StreamIDs |-> NoTime]
    /\ lastConnectionAt = [s \in StreamIDs |-> NoTime]
    /\ touch = [s \in StreamIDs |-> 0]
    /\ sweep = NoSweep
    /\ updates = [s \in StreamIDs |-> {}]
    /\ latestData = [s \in StreamIDs |-> NoData]
    /\ joinLog = [c \in Clients |-> "none"]
    /\ leaveLog = [c \in Clients |-> "none"]
    /\ hook = HookInit
    /\ lk = LockInit

----------------------------------------------------------------------------
(* handlers.go: admission of connections, creation and deletion of streams. *)

\* CreateStreamHandler: InsertOne of a record under a fresh random streamId
CreateStream(s) ==
    /\ ~panic
    /\ db[s] = "absent"
    /\ db' = [db EXCEPT ![s] = "active"]
    /\ createdAt' = [createdAt EXCEPT ![s] = now]
    /\ UNCHANGED <<Streams, hub, pc, bcast, Send, sendClosed, connClosed,
                   wexit, notified, dpc, panic>>
    /\ UNCHANGED <<now, lastConnectionAt, touch, sweep>>
    /\ UNCHANGED avars
    /\ UNCHANGED xvars

\* mutant of Admission: no DeletedAt check
AdmissionWithoutDeletedCheck(record) ==
    IF record = "absent" THEN "rej404" ELSE "admitted"

\* the answer of MobileWebSocketHandler and ViewerWebSocketHandler to the
\* FindOne of the stream record: 404, 410, or the upgrade and the Client
Admission(record) ==
    CASE record = "absent"  -> "rej404"
      [] record = "deleted" -> "rej410"
      [] OTHER              -> "admitted"

\* the names of the pool are taken in order (m1 before m2, v1 before v2),
\* within one cast
Attemptable(c) ==
    /\ \E k \in Casts : {x \in Clients : pc[x] # "none"} \cup {c} \subseteq k
    /\ c = "m2" => pc["m1"] # "none"
    /\ c = "v2" => pc["v1"] # "none"

\* MobileWebSocketHandler, ViewerWebSocketHandler up to the Client struct;
\* upgrader.Upgrade succeeds (ok) or the handler returns
HandlerCheck(c, ok) ==
    /\ ~panic
    /\ pc[c] = "none"
    /\ Attemptable(c)
    /\ ~ok => Admission(db[StreamID(c)]) = "admitted"
    /\ pc' = [pc EXCEPT ![c] = IF ok THEN Admission(db[StreamID(c)])
                                ELSE "upgrade_failed"]
    /\ UNCHANGED <<db, Streams, hub, bcast, Send, sendClosed, connClosed,
                   wexit, notified, dpc, panic>>
    /\ UNCHANGED tvars
    /\ UNCHANGED avars
    /\ UNCHANGED xvars

\* h.Register <- client, received by Hub.Run; then go WritePump, go ReadPump
HandlerRegister(c) ==
    /\ ~panic
    /\ pc[c] = "admitted"
    /\ hub = <<"idle", Nil>>
    /\ hub' = <<"register", c>>
    /\ pc' = [pc EXCEPT ![c] = "reading"]
    /\ UNCHANGED <<db, Streams, bcast, Send, sendClosed, connClosed,
                   wexit, notified, dpc, panic>>
    /\ UNCHANGED tvars
    /\ UNCHANGED avars
    /\ UNCHANGED xvars

\* Hub.Run: case client := <-h.Register
HubRegister(c) ==
    /\ ~panic
    /\ hub = <<"register", c>>
    /\ registerClient(c)
    /\ hub' = <<"idle", Nil>>
    /\ UNCHANGED <<db, pc, wexit, notified, dpc>>
    /\ UNCHANGED tvars
    /\ UNCHANGED <<updates, latestData, leaveLog>>
    /\ UNCHANGED xvars

\* Hub.Run: case client := <-h.Unregister
HubUnregister(c) ==
    /\ ~panic
    /\ hub = <<"unregister", c>>
    /\ unregisterClient(c)
    /\ hub' = <<"idle", Nil>>
    /\ UNCHANGED <<db, pc, wexit, notified, dpc>>
    /\ UNCHANGED <<now, createdAt, lastConnectionAt, sweep>>
    /\ UNCHANGED <<updates, latestData, joinLog>>
    /\ UNCHANGED xvars

\* the answer of DeleteStreamHandler to the FindOne of the stream record
DeleteAnswer(record) ==
    CASE record = "absent"  -> "r404"
      [] record = "deleted" -> "r400"
      [] OTHER              -> "found"

\* DeleteStreamHandler: FindOne and the DeletedAt check
DeleteCheck(d) ==
    /\ ~panic
    /\ dpc[d] = "idle"
    /\ dpc' = [dpc EXCEPT ![d] = DeleteAnswer(db[DeleteTarget(d)])]
    /\ UNCHANGED <<db, Streams, hub, pc, bcast, Send, sendClosed, connClosed,
                   wexit, notified, panic>>
    /\ UNCHANGED tvars
    /\ UNCHANGED avars
    /\ UNCHANGED xvars

\* DeleteStreamHandler: UpdateOne setting deletedAt succeeds (ok), or fails
\* and the handler answers 500
DeleteUpdate(d, ok) ==
    /\ ~panic
    /\ dpc[d] = "found"
    /\ db' = IF ok THEN [db EXCEPT ![DeleteTarget(d)] = "deleted"] ELSE db
    /\ dpc' = [dpc EXCEPT ![d] = IF ok THEN "updated" ELSE "r500"]
    /\ UNCHANGED <<Streams, hub, pc, bcast, Send, sendClosed, connClosed,
                   wexit, notified, panic>>
    /\ UNCHANGED tvars
    /\ UNCHANGED avars
    /\ UNCHANGED xvars

\* DeleteStreamHandler: h.CloseStream(streamID) and the 200 answer
DeleteClose(d) ==
    /\ ~panic
    /\ dpc[d] = "updated"
    /\ CloseStream(DeleteTarget(d))
    /\ dpc' = [dpc EXCEPT ![d] = "r200"]
    /\ UNCHANGED <<db, hub, pc, wexit, notified>>
    /\ UNCHANGED tvars
    /\ UNCHANGED avars
    /\ UNCHANGED xvars

----------------------------------------------------------------------------
(* client.go: the pumps of a Client.                                       *)

\* mutant of Relayed: no test of the message type
RelayedAnyType(c, m) == IsMobile(c) /\ m.Valid

\* ReadPump forwards a message: a mobile client's well-formed stream_data
Relayed(c, m) == IsMobile(c) /\ m.Valid /\ m.Type = "stream_data"

\* ReadPump reads a message it relays; BroadcastToViewers looks the
\* StreamHub up under h.mu.RLock and returns when there is none
ReadPumpBroadcast(c, m) ==
    /\ ~panic
    /\ pc[c] = "reading"
    /\ Relayed(c, m)
    /\ IF StreamID(c) \in DOMAIN Streams
       THEN /\ pc' = [pc EXCEPT ![c] = "bcast"]
            /\ bcast' = [bcast EXCEPT ![c] = [ptr |-> "live", msg |-> m]]
       ELSE UNCHANGED <<pc, bcast>>
    /\ updates' = [updates EXCEPT ![StreamID(c)] = @ \cup {m.Data}]
    /\ UNCHANGED <<db, Streams, hub, Send, sendClosed, connClosed,
                   wexit, notified, dpc, panic>>
    /\ UNCHANGED tvars
    /\ UNCHANGED <<latestData, joinLog, leaveLog>>
    /\ UNCHANGED xvars

\* ReadPump reads a message it does not relay
ReadPumpIgnore(c, m) ==
    /\ ~panic
    /\ pc[c] = "reading"
    /\ ~Relayed(c, m)
    /\ UNCHANGED vars

\* BroadcastToViewers: the loop over streamHub.Viewers under streamHub.mu
BroadcastToViewers(c) ==
    /\ ~panic
    /\ pc[c] = "bcast"
    /\ Send' = TrySendAll(Send, BroadcastTargets(c), bcast[c].msg)
    /\ panic' = (panic \/ SendPanics(BroadcastTargets(c)))
    /\ pc' = [pc EXCEPT ![c] = "reading"]
    /\ bcast' = [bcast EXCEPT ![c] = NoBcast]
    /\ UNCHANGED <<db, Streams, hub, sendClosed, connClosed, wexit, notified, dpc>>
    /\ UNCHANGED tvars
    /\ UNCHANGED avars
    /\ UNCHANGED xvars

\* ReadMessage fails: the peer went away, the deadline passed, or the
\* connection was closed here
ReadPumpError(c) ==
    /\ ~panic
    /\ pc[c] = "reading"
    /\ pc' = [pc EXCEPT ![c] = "exiting"]
    /\ UNCHANGED <<db, Streams, hub, bcast, Send, sendClosed, connClosed,
                   wexit, notified, dpc, panic>>
    /\ UNCHANGED tvars
    /\ UNCHANGED avars
    /\ UNCHANGED xvars

\* mutant of ReadPumpUnregister: the request does not wait for Hub.Run to
\* be back at its select
ReadPumpUnregisterOvertakes(c) ==
    /\ ~panic
    /\ pc[c] = "exiting"
    /\ hub' = <<"unregister", c>>
    /\ connClosed' = [connClosed EXCEPT ![c] = TRUE]
    /\ pc' = [pc EXCEPT ![c] = "done"]
    /\ UNCHANGED <<db, Streams, bcast, Send, sendClosed,
                   wexit, notified, dpc, panic>>
    /\ UNCHANGED tvars
    /\ UNCHANGED avars
    /\ UNCHANGED xvars

\* mutant of ReadPumpUnregister: the read is tried again after an error
ReadPumpRetries(c) ==
    /\ ~panic
    /\ pc[c] = "exiting"
    /\ pc' = [pc EXCEPT ![c] = "reading"]
    /\ UNCHANGED <<db, Streams, hub, bcast, Send, sendClosed, connClosed,
                   wexit, notified, dpc, panic>>
    /\ UNCHANGED tvars
    /\ UNCHANGED avars
    /\ UNCHANGED xvars

\* the deferred function of ReadPump: h.Unregister <- c, received by
\* Hub.Run, and c.Conn.Close() right after it
ReadPumpUnregister(c) ==
    /\ ~panic
    /\ pc[c] = "exiting"
    /\ hub = <<"idle", Nil>>
    /\ hub' = <<"unregister", c>>
    /\ connClosed' = [connClosed EXCEPT ![c] = TRUE]
    /\ pc' = [pc EXCEPT ![c] = "done"]
    /\ UNCHANGED <<db, Streams, bcast, Send, sendClosed,
                   wexit, notified, dpc, panic>>
    /\ UNCHANGED tvars
    /\ UNCHANGED avars
    /\ UNCHANGED xvars

\* the handler has started the pumps of c
Started(c) == pc[c] \in {"reading", "bcast", "exiting", "done"}

\* a write to the socket of c can succeed: never once Conn.Close() was
\* called; on an open connection it fails when the peer is gone
CanWrite(c, ok) == ok => ~connClosed[c]

\* mutant of WritePumpReturn: no deferred c.Conn.Close()
WritePumpReturnLeavesConn(c) ==
    /\ wexit' = [wexit EXCEPT ![c] = TRUE]
    /\ UNCHANGED connClosed

\* WritePump returns: wexit, and the deferred c.Conn.Close()
WritePumpReturn(c) ==
    /\ wexit' = [wexit EXCEPT ![c] = TRUE]
    /\ connClosed' = [connClosed EXCEPT ![c] = TRUE]

\* WritePump: case message, ok := <-c.Send with a message; the write
\* succeeds (ok) or WritePump returns
WritePumpMessage(c, ok) ==
    /\ ~panic
    /\ Started(c) /\ ~wexit[c]
    /\ Send[c] # << >>
    /\ CanWrite(c, ok)
    /\ Send' = [Send EXCEPT ![c] = Tail(@)]
    /\ IF ok
       THEN /\ notified' = [notified EXCEPT ![c] =
                                @ \/ Head(Send[c]).Type = "stream_closed"]
            /\ UNCHANGED <<wexit, connClosed>>
       ELSE /\ WritePumpReturn(c)
            /\ UNCHANGED notified
    /\ UNCHANGED <<db, Streams, hub, pc, bcast, sendClosed, dpc, panic>>
    /\ UNCHANGED tvars
    /\ UNCHANGED avars
    /\ UNCHANGED xvars

\* WritePump: the channel is closed and drained; close frame, return, and
\* the deferred c.Conn.Close()
WritePumpClosed(c) ==
    /\ ~panic
    /\ Started(c) /\ ~wexit[c]
    /\ Send[c] = << >>
    /\ sendClosed[c] # "no"
    /\ WritePumpReturn(c)
    /\ UNCHANGED <<db, Streams, hub, pc, bcast, Send, sendClosed,
                   notified, dpc, panic>>
    /\ UNCHANGED tvars
    /\ UNCHANGED avars
    /\ UNCHANGED xvars

\* WritePump: case <-ticker.C; the ping is written (ok) or WritePump returns
WritePumpPing(c, ok) ==
    /\ ~panic
    /\ Started(c) /\ ~wexit[c]
    /\ CanWrite(c, ok)
    /\ IF ok THEN UNCHANGED <<wexit, connClosed>> ELSE WritePumpReturn(c)
    /\ UNCHANGED <<db, Streams, hub, pc, bcast, Send, sendClosed,
                   notified, dpc, panic>>
    /\ UNCHANGED tvars
    /\ UNCHANGED avars
    /\ UNCHANGED xvars

----------------------------------------------------------------------------
(* hub.go: the goroutines that write timestamps, and the inactivity sweep. *)

\* updateLastConnectionTime: UpdateOne sets lastConnectionAt to time.Now()
\* (ok), or fails and is logged
Touch(s, ok) ==
    /\ ~panic
    /\ touch[s] > 0
    /\ touch' = [touch EXCEPT ![s] = @ - 1]
    /\ lastConnectionAt' = IF ok /\ db[s] # "absent"
                           THEN [lastConnectionAt EXCEPT ![s] = now]
                           ELSE lastConnectionAt
    /\ UNCHANGED <<db, Streams, hub, pc, bcast, Send, sendClosed, connClosed,
                   wexit, notified, dpc, panic, now, createdAt, sweep>>
    /\ UNCHANGED avars
    /\ UNCHANGED xvars

\* time passes
Tick ==
    /\ ~panic
    /\ now < MaxTime
    /\ now' = now + 1
    /\ UNCHANGED <<db, Streams, hub, pc, bcast, Send, sendClosed, connClosed,
                   wexit, notified, dpc, panic, createdAt, lastConnectionAt,
                   touch, sweep>>
    /\ UNCHANGED avars
    /\ UNCHANGED xvars

\* mutant of Inactive: $lte in place of $lt
InactiveOrEqual(s, cutoffTime) ==
    /\ db[s] = "active"
    /\ \/ lastConnectionAt[s] # NoTime /\ lastConnectionAt[s] <= cutoffTime
       \/ lastConnectionAt[s] = NoTime /\ createdAt[s] <= cutoffTime

\* the filter of cleanupInactiveStreams: isActive, deletedAt nil, and
\* lastConnectionAt < cutoffTime, or lastConnectionAt nil and
\* createdAt < cutoffTime
Inactive(s, cutoffTime) ==
    /\ db[s] = "active"
    /\ \/ lastConnectionAt[s] # NoTime /\ lastConnectionAt[s] < cutoffTime
       \/ lastConnectionAt[s] = NoTime /\ createdAt[s] < cutoffTime

\* the orders in which a cursor may return the documents of a set
Orders(S) ==
    {q \in [1..Cardinality(S) -> S] : \A s \in S : \E i \in DOMAIN q : q[i] = s}

\* cleanupInactiveStreams up to the loop: cutoffTime, Find and cursor.All
\* succeed (ok) and give streamsToCancel, or fail and the tick returns
SweepFind(ok) ==
    /\ ~panic
    /\ sweep.pc = "idle"
    /\ LET cutoffTime == now - InactiveStreamTimeout
       IN  \E order \in Orders({s \in StreamIDs : Inactive(s, cutoffTime)}) :
             sweep' = IF ok THEN [pc |-> "loop", cutoffTime |-> cutoffTime,
                                 streamsToCancel |-> order]
                      ELSE NoSweep
    /\ UNCHANGED <<db, Streams, hub, pc, bcast, Send, sendClosed, connClosed,
                   wexit, notified, dpc, panic, now, createdAt,
                   lastConnectionAt, touch>>
    /\ UNCHANGED avars
    /\ UNCHANGED xvars

\* the loop of cleanupInactiveStreams, for one stream: HasActiveConnections,
\* then go updateLastConnectionTime and continue, or on to autoCancelStream
SweepCheck ==
    /\ ~panic
    /\ sweep.pc = "loop"
    /\ sweep.streamsToCancel # << >>
    /\ LET s == Head(sweep.streamsToCancel)
       IN  IF HasActiveConnections(s)
           THEN /\ touch[s] < MaxTouch
                /\ touch' = Spawned(s)
                /\ sweep' = [sweep EXCEPT !.streamsToCancel = Tail(@)]
           ELSE /\ sweep' = [sweep EXCEPT !.pc = "cancel"]
                /\ UNCHANGED touch
    /\ UNCHANGED <<db, Streams, hub, pc, bcast, Send, sendClosed, connClosed,
                   wexit, notified, dpc, panic, now, createdAt,
                   lastConnectionAt>>
    /\ UNCHANGED avars
    /\ UNCHANGED xvars

\* mutant of AfterCancelError: the error ends the tick
AfterCancelErrorReturns(sw) == NoSweep

\* cleanupInactiveStreams after autoCancelStream returned an error: log it
\* and continue with the next stream
AfterCancelError(sw) ==
    [sw EXCEPT !.pc = "loop", !.streamsToCancel = Tail(@)]

\* autoCancelStream: UpdateOne sets deletedAt (ok), or fails; the loop then
\* logs the error and continues
SweepCancel(ok) ==
    /\ ~panic
    /\ sweep.pc = "cancel"
    /\ LET s == Head(sweep.streamsToCancel)
       IN  /\ db' = IF ok /\ db[s] # "absent"
                     THEN [db EXCEPT ![s] = "deleted"] ELSE db
           /\ sweep' = IF ok THEN [sweep EXCEPT !.pc = "close"]
                       ELSE AfterCancelError(sweep)
    /\ UNCHANGED <<Streams, hub, pc, bcast, Send, sendClosed, connClosed,
                   wexit, notified, dpc, panic, now, createdAt,
                   lastConnectionAt, touch>>
    /\ UNCHANGED avars
    /\ UNCHANGED xvars

\* autoCancelStream: h.CloseStream(streamID), and back to the loop
SweepClose ==
    /\ ~panic
    /\ sweep.pc = "close"
    /\ CloseStream(Head(sweep.streamsToCancel))
    /\ sweep' = [sweep EXCEPT !.pc = "loop", !.streamsToCancel = Tail(@)]
    /\ UNCHANGED <<db, hub, pc, wexit, notified, dpc, now, createdAt,
                   lastConnectionAt, touch>>
    /\ UNCHANGED avars
    /\ UNCHANGED xvars

\* cleanupInactiveStreams returns
SweepReturn ==
    /\ ~panic
    /\ sweep.pc = "loop"
    /\ sweep.streamsToCancel = << >>
    /\ sweep' = NoSweep
    /\ UNCHANGED <<db, Streams, hub, pc, bcast, Send, sendClosed, connClosed,
                   wexit, notified, dpc, panic, now, createdAt,
                   lastConnectionAt, touch>>
    /\ UNCHANGED avars
    /\ UNCHANGED xvars

----------------------------------------------------------------------------
(* The goroutines that write the telemetry and the join logs.              *)

\* updateStreamData: UpdateOne sets latestData to the payload (ok), or fails
\* and is logged
UpdateStreamData(s, p, ok) ==
    /\ ~panic
    /\ p \in updates[s]
    /\ updates' = [updates EXCEPT ![s] = @ \ {p}]
    /\ latestData' = IF ok /\ db[s] # "absent"
                     THEN [latestData EXCEPT ![s] = p] ELSE latestData
    /\ UNCHANGED <<db, Streams, hub, pc, bcast, Send, sendClosed, connClosed,
                   wexit, notified, dpc, panic, joinLog, leaveLog>>
    /\ UNCHANGED xvars
    /\ UNCHANGED tvars

\* logStreamJoin: InsertOne succeeds (ok) and the assignment of
\* client.JoinLogID begins, or fails and the goroutine returns
LogStreamJoinInsert(c, ok) ==
    /\ ~panic
    /\ joinLog[c] = "pending"
    /\ joinLog' = [joinLog EXCEPT ![c] = IF ok THEN "storing" ELSE "failed"]
    /\ UNCHANGED <<db, Streams, hub, pc, bcast, Send, sendClosed, connClosed,
                   wexit, notified, dpc, panic, updates, latestData, leaveLog>>
    /\ UNCHANGED xvars
    /\ UNCHANGED tvars

\* logStreamJoin: client.JoinLogID = result.InsertedID is complete
LogStreamJoinStore(c) ==
    /\ ~panic
    /\ joinLog[c] = "storing"
    /\ joinLog' = [joinLog EXCEPT ![c] = "stored"]
    /\ UNCHANGED <<db, Streams, hub, pc, bcast, Send, sendClosed, connClosed,
                   wexit, notified, dpc, panic, updates, latestData, leaveLog>>
    /\ UNCHANGED xvars
    /\ UNCHANGED tvars

\* what logStreamLeave may read in client.JoinLogID, which no lock
\* protects: the handle once stored, nil before the assignment, and either
\* nil or a half-written interface value while logStreamJoin assigns it
JoinLogIDRead(c) ==
    CASE joinLog[c] = "stored"  -> {"handle"}
      [] joinLog[c] = "storing" -> {"nil", "torn"}
      [] OTHER                  -> {"nil"}

\* mutant of LeaveOutcome: no nil test on client.JoinLogID
LeaveOutcomeUnguarded(seen, ok) == IF ok THEN "written" ELSE "failed"

\* logStreamLeave, given what it read in client.JoinLogID: return on nil;
\* UpdateOne of leftAt succeeds (ok) or fails and is logged
LeaveOutcome(seen, ok) ==
    CASE seen = "nil" -> "skipped"
      [] seen = "torn" -> "crashed"
      [] OTHER -> IF ok THEN "written" ELSE "failed"

\* logStreamLeave; using a half-written interface value is a nil
\* dereference, a runtime panic
LogStreamLeave(c, seen, ok) ==
    /\ ~panic
    /\ leaveLog[c] = "pending"
    /\ seen \in JoinLogIDRead(c)
    /\ leaveLog' = [leaveLog EXCEPT ![c] = LeaveOutcome(seen, ok)]
    /\ panic' = (LeaveOutcome(seen, ok) = "crashed")
    /\ UNCHANGED <<db, Streams, hub, pc, bcast, Send, sendClosed, connClosed,
                   wexit, notified, dpc, updates, latestData, joinLog>>
    /\ UNCHANGED xvars
    /\ UNCHANGED tvars

----------------------------------------------------------------------------
Next ==
    \/ \E s \in StreamIDs : CreateStream(s)
    \/ \E c \in Clients, ok \in BOOLEAN : HandlerCheck(c, ok)
    \/ \E c \in Clients : HandlerRegister(c)
    \/ \E c \in Clients : HubRegister(c)
    \/ \E c \in Clients : HubUnregister(c)
    \/ \E d \in DeleteReqs : DeleteCheck(d)
    \/ \E d \in DeleteReqs, ok \in BOOLEAN : DeleteUpdate(d, ok)
    \/ \E d \in DeleteReqs : DeleteClose(d)
    \/ \E c \in Clients, m \in Inbound : ReadPumpBroadcast(c, m)
    \/ \E c \in Clients, m \in Inbound : ReadPumpIgnore(c, m)
    \/ \E c \in Clients : BroadcastToViewers(c)
    \/ \E c \in Clients : ReadPumpError(c)
    \/ \E c \in Clients : ReadPumpUnregister(c)
    \/ \E c \in Clients, ok \in BOOLEAN : WritePumpMessage(c, ok)
    \/ \E c \in Clients : WritePumpClosed(c)
    \/ \E c \in Clients, ok \in BOOLEAN : WritePumpPing(c, ok)

\* the server as main starts it: the Hub and the routes, no cleanup job.  The
\* updateLastConnectionTime goroutines unregisterClient starts are counted in
\* touch and left waiting: they write lastConnectionAt, which only the
\* cleanup job reads, and they run in SweepSpec.
Spec == Init /\ [][Next]_vars

\* the server with the connections cs only, and the streams they ask for
CastNext(cs) ==
    \/ \E s \in {StreamID(c) : c \in cs} : CreateStream(s)
    \/ \E c \in cs, ok \in BOOLEAN : HandlerCheck(c, ok)
    \/ \E c \in cs : HandlerRegister(c)
    \/ \E c \in cs : HubRegister(c)
    \/ \E c \in cs : HubUnregister(c)
    \/ \E d \in DeleteReqs : DeleteCheck(d)
    \/ \E d \in DeleteReqs, ok \in BOOLEAN : DeleteUpdate(d, ok)
    \/ \E d \in DeleteReqs : DeleteClose(d)
    \/ \E c \in cs, m \in Inbound : ReadPumpBroadcast(c, m)
    \/ \E c \in cs, m \in Inbound : ReadPumpIgnore(c, m)
    \/ \E c \in cs : BroadcastToViewers(c)
    \/ \E c \in cs : ReadPumpError(c)
    \/ \E c \in cs : ReadPumpUnregister(c)
    \/ \E c \in cs, ok \in BOOLEAN : WritePumpMessage(c, ok)
    \/ \E c \in cs : WritePumpClosed(c)
    \/ \E c \in cs, ok \in BOOLEAN : WritePumpPing(c, ok)

\* the server with two producers and a viewer of one stream
ProducersSpec == Init /\ [][CastNext({"m1", "m2", "v1"})]_vars

\* the server with a producer and a viewer of one stream and a viewer of
\* another
StreamsSpec == Init /\ [][CastNext({"m1", "v1", "v3"})]_vars

\* the connections of the behaviours with the cleanup job
SweepClients == {"m1", "v3"}

\* the server with StartInactiveStreamCleanup running and the clock advancing
SweepNext ==
    \/ \E s \in StreamIDs : CreateStream(s)
    \/ \E c \in SweepClients, ok \in BOOLEAN : HandlerCheck(c, ok)
    \/ \E c \in SweepClients : HandlerRegister(c)
    \/ \E c \in SweepClients : HubRegister(c)
    \/ \E c \in SweepClients : HubUnregister(c)
    \/ \E d \in DeleteReqs : DeleteCheck(d)
    \/ \E d \in DeleteReqs, ok \in BOOLEAN : DeleteUpdate(d, ok)
    \/ \E d \in DeleteReqs : DeleteClose(d)
    \/ \E c \in SweepClients : ReadPumpError(c)
    \/ \E c \in SweepClients : ReadPumpUnregister(c)
    \/ \E c \in SweepClients : WritePumpClosed(c)
    \/ \E c \in SweepClients, ok \in BOOLEAN : WritePumpPing(c, ok)
    \/ \E s \in StreamIDs, ok \in BOOLEAN : Touch(s, ok)
    \/ Tick
    \/ \E ok \in BOOLEAN : SweepFind(ok)
    \/ SweepCheck
    \/ \E ok \in BOOLEAN : SweepCancel(ok)
    \/ SweepClose
    \/ SweepReturn

SweepSpec == Init /\ [][SweepNext]_vars

\* the connections of the behaviours with concurrent deletions, and of those
\* checked under fairness
FewClients == {"m1", "v1"}

\* the client side of the server, for the connections of FewClients
FewClientsNext ==
    \/ \E s \in StreamIDs : CreateStream(s)
    \/ \E c \in FewClients, ok \in BOOLEAN : HandlerCheck(c, ok)
    \/ \E c \in FewClients : HandlerRegister(c)
    \/ \E c \in FewClients : HubRegister(c)
    \/ \E c \in FewClients : HubUnregister(c)
    \/ \E c \in FewClients, m \in Inbound : ReadPumpBroadcast(c, m)
    \/ \E c \in FewClients, m \in Inbound : ReadPumpIgnore(c, m)
    \/ \E c \in FewClients : BroadcastToViewers(c)
    \/ \E c \in FewClients : ReadPumpError(c)
    \/ \E c \in FewClients : ReadPumpUnregister(c)
    \/ \E c \in FewClients, ok \in BOOLEAN : WritePumpMessage(c, ok)
    \/ \E c \in FewClients : WritePumpClosed(c)
    \/ \E c \in FewClients, ok \in BOOLEAN : WritePumpPing(c, ok)

\* the server with two DELETE requests for one stream
DeleteNext ==
    \/ FewClientsNext
    \/ \E d \in AllDeleteReqs : DeleteCheck(d)
    \/ \E d \in AllDeleteReqs, ok \in BOOLEAN : DeleteUpdate(d, ok)
    \/ \E d \in AllDeleteReqs : DeleteClose(d)

DeleteSpec == Init /\ [][DeleteNext]_vars

\* the server with one DELETE request
LiveNext ==
    \/ FewClientsNext
    \/ \E d \in DeleteReqs : DeleteCheck(d)
    \/ \E d \in DeleteReqs, ok \in BOOLEAN : DeleteUpdate(d, ok)
    \/ \E d \in DeleteReqs : DeleteClose(d)

\* Hub.Run is a goroutine of its own that gets to run, so a request it has
\* received is processed; a goroutine blocked in a send on h.Unregister is
\* served when Hub.Run comes back to its select often enough
LiveSpec ==
    /\ Init /\ [][LiveNext]_vars
    /\ \A c \in FewClients : WF_vars(HubRegister(c))
    /\ \A c \in FewClients : WF_vars(HubUnregister(c))
    /\ \A c \in FewClients : SF_vars(ReadPumpUnregister(c))

\* the connections of the behaviours with one producer and two subscribers
ViewersClients == {"m1", "v1", "v2"}

\* the server with the connections of ViewersClients and their stream
ViewersNext ==
    \/ \E s \in {StreamID(c) : c \in ViewersClients} : CreateStream(s)
    \/ \E c \in ViewersClients, ok \in BOOLEAN : HandlerCheck(c, ok)
    \/ \E c \in ViewersClients : HandlerRegister(c)
    \/ \E c \in ViewersClients : HubRegister(c)
    \/ \E c \in ViewersClients : HubUnregister(c)
    \/ \E d \in DeleteReqs : DeleteCheck(d)
    \/ \E d \in DeleteReqs, ok \in BOOLEAN : DeleteUpdate(d, ok)
    \/ \E d \in DeleteReqs : DeleteClose(d)
    \/ \E c \in ViewersClients, m \in Inbound : ReadPumpBroadcast(c, m)
    \/ \E c \in ViewersClients, m \in Inbound : ReadPumpIgnore(c, m)
    \/ \E c \in ViewersClients : BroadcastToViewers(c)
    \/ \E c \in ViewersClients : ReadPumpError(c)
    \/ \E c \in ViewersClients : ReadPumpUnregister(c)
    \/ \E c \in ViewersClients, ok \in BOOLEAN : WritePumpMessage(c, ok)
    \/ \E c \in ViewersClients : WritePumpClosed(c)
    \/ \E c \in ViewersClients, ok \in BOOLEAN : WritePumpPing(c, ok)

ViewersSpec == Init /\ [][ViewersNext]_vars

\* every goroutine that can take a step gets to take it: WritePump its
\* receive from Send, BroadcastToViewers its loop; and a ReadMessage on a
\* closed connection fails once what was buffered has been read
PumpSpec ==
    /\ LiveSpec
    /\ \A c \in FewClients : WF_vars(\E ok \in BOOLEAN : WritePumpMessage(c, ok))
    /\ \A c \in FewClients : WF_vars(WritePumpClosed(c))
    /\ \A c \in FewClients : WF_vars(BroadcastToViewers(c))
    /\ \A c \in FewClients : SF_vars(connClosed[c] /\ ReadPumpError(c))

\* every goroutine gets to run: a handler blocked in its send on h.Register
\* is served like a pump blocked on h.Unregister, the ticker of WritePump
\* fires, so a ping is written to a closed connection and fails, and the
\* DELETE handler goes on to CloseStream
FairSpec ==
    /\ PumpSpec
    /\ \A c \in FewClients : SF_vars(HandlerRegister(c))
    /\ \A c \in FewClients : WF_vars(connClosed[c] /\ WritePumpPing(c, FALSE))
    /\ \A d \in DeleteReqs : WF_vars(DeleteClose(d))

\* two distinguishable telemetry payloads
OrderPayloads == {"p1", "p2"}

\* what the mobile app may write to its socket in the behaviours that look
\* at the order of the messages
OrderInbound == {StreamDataMsg(p) : p \in OrderPayloads}

\* the server with a producer that sends distinguishable messages
OrderNext ==
    \/ \E s \in StreamIDs : CreateStream(s)
    \/ \E c \in FewClients, ok \in BOOLEAN : HandlerCheck(c, ok)
    \/ \E c \in FewClients : HandlerRegister(c)
    \/ \E c \in FewClients : HubRegister(c)
    \/ \E c \in FewClients : HubUnregister(c)
    \/ \E c \in FewClients, m \in OrderInbound : ReadPumpBroadcast(c, m)
    \/ \E c \in FewClients, m \in OrderInbound : ReadPumpIgnore(c, m)
    \/ \E c \in FewClients : BroadcastToViewers(c)
    \/ \E c \in FewClients : ReadPumpError(c)
    \/ \E c \in FewClients : ReadPumpUnregister(c)
    \/ \E c \in FewClients, ok \in BOOLEAN : WritePumpMessage(c, ok)
    \/ \E c \in FewClients : WritePumpClosed(c)
    \/ \E c \in FewClients, ok \in BOOLEAN : WritePumpPing(c, ok)
    \/ \E d \in DeleteReqs : DeleteCheck(d)
    \/ \E d \in DeleteReqs, ok \in BOOLEAN : DeleteUpdate(d, ok)
    \/ \E d \in DeleteReqs : DeleteClose(d)

OrderSpec == Init /\ [][OrderNext]_vars

\* the server with the goroutines that write the telemetry and the join logs
AuditNext ==
    \/ LiveNext
    \/ \E s \in StreamIDs, p \in Payloads, ok \in BOOLEAN : UpdateStreamData(s, p, ok)
    \/ \E c \in FewClients, ok \in BOOLEAN : LogStreamJoinInsert(c, ok)
    \/ \E c \in FewClients : LogStreamJoinStore(c)
    \/ \E c \in FewClients, seen \in {"nil", "torn", "handle"}, ok \in BOOLEAN :
          LogStreamLeave(c, seen, ok)

AuditSpec == Init /\ [][AuditNext]_vars

\* the same, every goroutine getting to run: those of FairSpec, and
\* logStreamJoin and logStreamLeave once started
AuditFairSpec ==
    /\ AuditSpec
    /\ \A c \in FewClients :
          /\ WF_vars(HubRegister(c))
          /\ WF_vars(HubUnregister(c))
          /\ SF_vars(HandlerRegister(c))
          /\ SF_vars(ReadPumpUnregister(c))
          /\ WF_vars(\E ok \in BOOLEAN : WritePumpMessage(c, ok))
          /\ WF_vars(WritePumpClosed(c))
          /\ WF_vars(BroadcastToViewers(c))
          /\ SF_vars(connClosed[c] /\ ReadPumpError(c))
          /\ WF_vars(connClosed[c] /\ WritePumpPing(c, FALSE))
          /\ WF_vars(\E ok \in BOOLEAN : LogStreamJoinInsert(c, ok))
          /\ WF_vars(LogStreamJoinStore(c))
          /\ WF_vars(\E seen \in {"nil", "torn", "handle"}, ok \in BOOLEAN :
                        LogStreamLeave(c, seen, ok))
    /\ \A d \in DeleteReqs : WF_vars(DeleteClose(d))

----------------------------------------------------------------------------
(* www/src/hooks/useWebSocket.ts: the hook of the web viewer. Each action   *)
(* is one run of JavaScript between two awaits or events.                   *)

\* the socket w is OPEN or CONNECTING in the refs h
LiveSocket(h, w) == w # NoSocket /\ h.readyState[w] \in {"CONNECTING", "OPEN"}

\* the sockets that are OPEN or CONNECTING
LiveSockets == {w \in Sockets : LiveSocket(hook, w)}

\* ws.close(): an OPEN or CONNECTING socket starts closing, nothing else
\* changes
CloseSocket(h, w) ==
    IF LiveSocket(h, w)
    THEN [h EXCEPT !.readyState[w] = "CLOSING"] ELSE h

\* clearTimeout(reconnectTimeoutRef.current) and the null assignment
ClearReconnectTimeout(h) ==
    IF h.timerRef
    THEN [h EXCEPT !.timers = @ - 1, !.timerRef = FALSE] ELSE h

\* connect() up to await checkStreamStatus()
Connect(h) ==
    IF \/ ~h.isMountedRef
       \/ h.isStreamClosedRef
       \/ h.isConnectingRef
       \/ LiveSocket(h, h.wsRef)
    THEN h
    ELSE [h EXCEPT !.isConnectingRef = TRUE, !.connects = @ + 1]

\* the end of ws.onclose: the reconnect timer is set
ScheduleReconnect(h) ==
    IF ~h.isStreamClosedRef /\ h.isMountedRef
       /\ h.reconnectAttempts < MaxReconnectAttempts
    THEN [h EXCEPT !.timers = @ + 1, !.timerRef = TRUE]
    ELSE h

\* checkStreamStatus() has set isStreamClosedRef when the answer is 410 or
\* has deletedAt
Checked(h, result) ==
    IF result = "closed" THEN [h EXCEPT !.isStreamClosedRef = TRUE] ELSE h

\* the refs become h; the server is another process
HookStep(h) ==
    /\ h.connects <= MaxCalls
    /\ h.closes <= MaxCalls
    /\ h.timers <= MaxTimers
    /\ hook' = h
    /\ UNCHANGED <<db, Streams, hub, pc, bcast, Send, sendClosed, connClosed,
                   wexit, notified, dpc, panic, lk>>
    /\ UNCHANGED tvars
    /\ UNCHANGED avars

\* the effect of [streamId] runs: the component is mounted, connect is
\* deferred by setTimeout(0)
Mount ==
    /\ ~hook.isMountedRef
    /\ HookStep([hook EXCEPT !.isMountedRef = TRUE,
                             !.isConnectingRef = FALSE,
                             !.isStreamClosedRef = FALSE,
                             !.connectTimeoutRef = TRUE])

\* the cleanup of the effect
Unmount ==
    /\ hook.isMountedRef
    /\ HookStep([CloseSocket(
                    ClearReconnectTimeout(
                        [hook EXCEPT !.isMountedRef = FALSE,
                                     !.connectTimeoutRef = FALSE]),
                    hook.wsRef)
                 EXCEPT !.wsRef = NoSocket, !.isConnectingRef = FALSE])

\* the timer of the effect fires: connectRef.current()
ConnectTimeoutFires ==
    /\ hook.connectTimeoutRef
    /\ HookStep(Connect([hook EXCEPT !.connectTimeoutRef = FALSE]))

\* a reconnect timer fires, the one reconnectTimeoutRef refers to (refd) or
\* an earlier one that is still pending: reconnectAttempts.current++ and
\* connectRef.current()
ReconnectTimeoutFires(refd) ==
    /\ IF refd THEN hook.timerRef
       ELSE hook.timers > (IF hook.timerRef THEN 1 ELSE 0)
    /\ HookStep(Connect([hook EXCEPT
            !.timers = @ - 1,
            !.timerRef = IF refd THEN FALSE ELSE @,
            !.reconnectAttempts = @ + 1]))

\* reconnect(), called by the page
Reconnect ==
    /\ hook.isMountedRef
    /\ HookStep(Connect(
          [CloseSocket(ClearReconnectTimeout(
                          [hook EXCEPT !.connectTimeoutRef = FALSE]),
                       hook.wsRef)
           EXCEPT !.wsRef = NoSocket, !.isConnectingRef = FALSE,
                  !.isStreamClosedRef = FALSE, !.reconnectAttempts = 0]))

\* the sockets not created yet
Unused(h) == {w \in Sockets : h.readyState[w] = "none"}

\* new WebSocket(...) and wsRef.current = ws
NewWebSocket(h) ==
    LET w == CHOOSE x \in Unused(h) : \A y \in Unused(h) : x <= y
    IN  [h EXCEPT !.readyState[w] = "CONNECTING", !.wsRef = w]

\* connect() after await checkStreamStatus(): return when unmounted or
\* told not to connect, new WebSocket otherwise
ConnectResume(result) ==
    /\ hook.connects > 0
    /\ LET h == Checked([hook EXCEPT !.connects = @ - 1], result)
       IN  IF ~h.isMountedRef \/ result # "ok"
           THEN HookStep([h EXCEPT !.isConnectingRef = FALSE])
           ELSE Unused(h) # {} /\ HookStep(NewWebSocket(h))

\* ws.onopen
OnOpen(w) ==
    /\ hook.readyState[w] = "CONNECTING"
    /\ HookStep(IF ~hook.isMountedRef
                THEN [hook EXCEPT !.isConnectingRef = FALSE,
                                  !.readyState[w] = "CLOSING"]
                ELSE [hook EXCEPT !.isConnectingRef = FALSE,
                                  !.readyState[w] = "OPEN",
                                  !.isStreamClosedRef = FALSE,
                                  !.reconnectAttempts = 0])

\* ws.onmessage with a stream_closed message
OnStreamClosed(w) ==
    /\ hook.readyState[w] = "OPEN"
    /\ hook.isMountedRef
    /\ HookStep([hook EXCEPT !.isStreamClosedRef = TRUE,
                             !.readyState[w] = "CLOSING"])

\* the socket is closed: after ws.close(), by the server, or because the
\* connection failed (ws.onerror first); ws.onclose up to its await when the
\* code is 1000 or 1001 (clean), to its end otherwise
OnClose(w, clean) ==
    /\ hook.readyState[w] \in {"CONNECTING", "OPEN", "CLOSING"}
    /\ LET h == [hook EXCEPT !.readyState[w] = "CLOSED",
                             !.isConnectingRef = FALSE, !.wsRef = NoSocket]
       IN  HookStep(IF ~h.isMountedRef THEN h
                    ELSE IF clean THEN [h EXCEPT !.closes = @ + 1]
                    ELSE ScheduleReconnect(h))

\* ws.onclose after await checkStreamStatus()
OnCloseResume(result) ==
    /\ hook.closes > 0
    /\ LET h == Checked([hook EXCEPT !.closes = @ - 1], result)
       IN  HookStep(IF result # "ok" \/ ~h.isMountedRef THEN h
                    ELSE ScheduleReconnect(h))

\* what checkStreamStatus() finds: the stream (ok, also when fetch fails),
\* no stream (404), a deleted stream (410 or deletedAt)
CheckResults == {"ok", "notfound", "closed"}

\* the web viewer on a page of its own
HookNext ==
    \/ Mount
    \/ Unmount
    \/ ConnectTimeoutFires
    \/ \E refd \in BOOLEAN : ReconnectTimeoutFires(refd)
    \/ Reconnect
    \/ \E result \in CheckResults : ConnectResume(result)
    \/ \E w \in Sockets : OnOpen(w)
    \/ \E w \in Sockets : OnStreamClosed(w)
    \/ \E w \in Sockets, clean \in BOOLEAN : OnClose(w, clean)
    \/ \E result \in CheckResults : OnCloseResume(result)

HookSpec == Init /\ [][HookNext]_vars

----------------------------------------------------------------------------
(* hub.go at the level of its locks and channels. An operation is the       *)
(* sequence of its lock and channel operations; what it does to the maps is *)
(* in the actions above. Whether the StreamHub exists is any of the two.    *)

\* mu.Lock(): the writer is announced, then waits for the readers to leave
Lock(m) == << <<"announce", m>>, <<"acquire", m>> >>

\* streamHub.mu.Lock() ... streamHub.mu.Unlock()
Locked(m) == Lock(m) \o << <<"unlock", m>> >>

\* streamHub.mu.RLock() ... streamHub.mu.RUnlock()
RLocked(m) == << <<"rlock", m>>, <<"runlock", m>> >>

\* Hub.registerClient: h.mu for the whole call, streamHub.mu around the
\* insertion of a viewer
RegisterClientOps(isMobile) ==
    Lock("h") \o (IF isMobile THEN << >> ELSE Locked("s"))
              \o << <<"unlock", "h">> >>

\* mutant of UnregisterClientOps: the count is taken with h.GetViewerCount
\* while h.mu is held
UnregisterClientOpsCounting(exists) ==
    Lock("h") \o (IF exists
                  THEN Locked("s") \o << <<"rlock", "h">> >> \o RLocked("s")
                       \o << <<"runlock", "h">> >> \o RLocked("s")
                  ELSE << >>)
              \o << <<"unlock", "h">> >>

\* Hub.unregisterClient: h.mu for the whole call; with a session,
\* streamHub.mu around the removal and again, shared, around the isEmpty
\* test
UnregisterClientOps(exists) ==
    Lock("h") \o (IF exists THEN Locked("s") \o RLocked("s") ELSE << >>)
              \o << <<"unlock", "h">> >>

\* Hub.BroadcastToViewers: h.mu shared around the lookup, then
\* streamHub.mu shared around the loop
BroadcastToViewersOps(exists) ==
    RLocked("h") \o (IF exists THEN RLocked("s") ELSE << >>)

\* Hub.GetViewerCount and Hub.HasActiveConnections: h.mu shared for the
\* whole call, streamHub.mu shared inside it
GetViewerCountOps(exists) ==
    << <<"rlock", "h">> >> \o (IF exists THEN RLocked("s") ELSE << >>)
                          \o << <<"runlock", "h">> >>

\* Hub.CloseStream: h.mu for the whole call, streamHub.mu around the loop
CloseStreamOps(exists) ==
    Lock("h") \o (IF exists THEN Locked("s") ELSE << >>)
              \o << <<"unlock", "h">> >>

\* what a goroutine may begin: a handler sends on h.Register, ReadPump
\* relays a message or sends on h.Unregister, DeleteStreamHandler (or
\* autoCancelStream) calls CloseStream, the cleanup job and the tests call
\* the queries
Repertoire(t) ==
    CASE t = "mobile" ->
           {<< <<"send", "Register">> >>, << <<"send", "Unregister">> >>}
           \cup {BroadcastToViewersOps(e) : e \in BOOLEAN}
      [] t = "viewer" ->
           {<< <<"send", "Register">> >>, << <<"send", "Unregister">> >>}
      [] t = "delete" -> {CloseStreamOps(e) : e \in BOOLEAN}
      [] t = "query"  -> {GetViewerCountOps(e) : e \in BOOLEAN}
      [] OTHER -> {}

\* what Hub.Run calls for a client received on channel ch
Received(ch, t, exists) ==
    IF ch = "Register" THEN RegisterClientOps(t = "mobile")
    ELSE UnregisterClientOps(exists)

\* the goroutine t is at operation kind on mutex or channel m
At(t, kind, m) == lk.ops[t] # << >> /\ Head(lk.ops[t]) = <<kind, m>>

\* the locks become l; the data of the hub is in the actions above
LockStep(l) ==
    /\ lk' = l
    /\ UNCHANGED <<db, Streams, hub, pc, bcast, Send, sendClosed, connClosed,
                   wexit, notified, dpc, panic, hook>>
    /\ UNCHANGED tvars
    /\ UNCHANGED avars

\* a goroutine begins an operation
Begin(t, prog) ==
    /\ lk.ops[t] = << >>
    /\ prog \in Repertoire(t)
    /\ LockStep([lk EXCEPT !.ops[t] = prog])

\* h.Register <- client or h.Unregister <- c: the channels have no buffer,
\* so the send completes when Hub.Run is at its select, and Hub.Run calls
\* registerClient or unregisterClient
ChannelSend(t, ch, exists) ==
    /\ At(t, "send", ch)
    /\ lk.ops["run"] = << >>
    /\ LockStep([lk EXCEPT !.ops[t] = Tail(@),
                           !.ops["run"] = Received(ch, t, exists)])

\* mu.Lock(), first half: no other writer; new readers wait from now on
Announce(t, m) ==
    /\ At(t, "announce", m)
    /\ lk[m].w = Nil
    /\ LockStep([lk EXCEPT !.ops[t] = Tail(@), ![m].w = t])

\* mu.Lock(), second half: the readers have left
Acquire(t, m) ==
    /\ At(t, "acquire", m)
    /\ lk[m].w = t
    /\ lk[m].readers = {}
    /\ LockStep([lk EXCEPT !.ops[t] = Tail(@)])

\* mu.Unlock()
Unlock(t, m) ==
    /\ At(t, "unlock", m)
    /\ LockStep([lk EXCEPT !.ops[t] = Tail(@), ![m].w = Nil])

\* mu.RLock(): waits while a writer holds or waits for the lock
RLock(t, m) ==
    /\ At(t, "rlock", m)
    /\ lk[m].w = Nil
    /\ LockStep([lk EXCEPT !.ops[t] = Tail(@), ![m].readers = @ \cup {t}])

\* mu.RUnlock()
RUnlock(t, m) ==
    /\ At(t, "runlock", m)
    /\ LockStep([lk EXCEPT !.ops[t] = Tail(@), ![m].readers = @ \ {t}])

\* the two mutexes and the two channels
Mutexes == {"h", "s"}
Channels == {"Register", "Unregister"}

\* the sequences of operations a goroutine may have to do
AllOps ==
    UNION {Repertoire(t) : t \in Threads}
    \cup {Received(ch, t, e) : ch \in Channels, t \in Threads, e \in BOOLEAN}

\* the next operation of goroutine t
ThreadStep(t) ==
    \/ \E ch \in Channels, e \in BOOLEAN : ChannelSend(t, ch, e)
    \/ \E m \in Mutexes :
          Announce(t, m) \/ Acquire(t, m) \/ Unlock(t, m)
          \/ RLock(t, m) \/ RUnlock(t, m)

LockNext ==
    \/ \E t \in Threads, prog \in AllOps : Begin(t, prog)
    \/ \E t \in Threads, ch \in Channels, e \in BOOLEAN : ChannelSend(t, ch, e)
    \/ \E t \in Threads, m \in Mutexes : Announce(t, m)
    \/ \E t \in Threads, m \in Mutexes : Acquire(t, m)
    \/ \E t \in Threads, m \in Mutexes : Unlock(t, m)
    \/ \E t \in Threads, m \in Mutexes : RLock(t, m)
    \/ \E t \in Threads, m \in Mutexes : RUnlock(t, m)

\* a goroutine that can go on infinitely often does: sync.Mutex and
\* sync.RWMutex hand the lock to a goroutine that has waited, a waiting
\* writer keeps new readers out, and the senders blocked on a channel are
\* served in the order of their arrival
LockSpec ==
    /\ Init /\ [][LockNext]_vars
    /\ \A t \in Threads : SF_vars(ThreadStep(t))

----------------------------------------------------------------------------
(* What the properties below read off a state.                             *)

\* Hub.Run has completed registerClient(c)
RegisterDone(c) == Started(c) /\ hub # <<"register", c>>

\* Hub.Run has completed unregisterClient(c)
UnregisterDone(c) == pc[c] = "done" /\ hub # <<"unregister", c>>

\* the step of Hub.Run that runs registerClient(c)
RegisterStep(c) == hub = <<"register", c>> /\ hub' = <<"idle", Nil>>

\* the step of Hub.Run that runs unregisterClient(c)
UnregisterStep(c) == hub = <<"unregister", c>> /\ hub' = <<"idle", Nil>>

\* the step of DeleteStreamHandler that runs CloseStream
CloseStreamStep(d) == dpc[d] = "updated" /\ dpc'[d] = "r200"

\* the state has a session streamID
HasSession(streamID) == streamID \in DOMAIN Streams

\* the subscriber set of a session, empty when there is no session
Subscribers(streamID) ==
    IF HasSession(streamID) THEN Streams[streamID].Viewers ELSE {}

\* the installed producer of a session, Nil when there is none
Producer(streamID) ==
    IF HasSession(streamID) THEN Streams[streamID].Broadcaster ELSE Nil

\* c is the producer or a subscriber of its session
Member(c) == c = Producer(StreamID(c)) \/ c \in Subscribers(StreamID(c))

----------------------------------------------------------------------------
\* C1: in every state between two Hub operations, every key of the session
\* map is a session with a producer or at least one subscriber: Register,
\* Deregister and CloseSession never leave an empty session behind.
C1_NoEmptySession ==
    \A s \in DOMAIN Streams :
        Streams[s].Broadcaster # Nil \/ Streams[s].Viewers # {}

\* C1 witness: the last subscriber of abc was deregistered and the session
\* is gone, while another session is held
C1_Witness ==
    /\ UnregisterDone("v1") /\ sendClosed["v1"] = "unregister"
    /\ ~HasSession("abc")
    /\ HasSession("xyz")

\* C2: the Deregister of the installed Producer of a session closes the
\* outbound queue of every subscriber the session had and leaves no session
\* (hence no subscriber set) under that identifier.
C2_ProducerDeregister ==
    [][\A c \in Mobiles :
         (UnregisterStep(c) /\ Producer(StreamID(c)) = c)
         => /\ \A v \in Subscribers(StreamID(c)) : sendClosed'[v] # "no"
            /\ ~HasSession(StreamID(c))'
            /\ Subscribers(StreamID(c))' = {}]_vars

\* C2 witness: the producer of a session with two subscribers was
\* deregistered
C2_Witness ==
    /\ UnregisterDone("m1")
    /\ sendClosed["v1"] = "producer_left" /\ sendClosed["v2"] = "producer_left"
    /\ ~HasSession("abc")

\* the subscribers of the StreamHub a BroadcastToViewers call of c looked up:
\* those of the session while it is the session of the map, none once that
\* StreamHub was emptied and removed
C3_Recipients(c) ==
    IF bcast[c].ptr = "live" THEN Subscribers(StreamID(c)) ELSE {}

C4_ViewerCountNotification ==
    [][\A c \in Viewers :
         LET sid == StreamID(c)
             b   == Producer(sid)
         IN  ((RegisterStep(c) \/ UnregisterStep(c))
              /\ Subscribers(sid)' # Subscribers(sid)
              /\ b # Nil /\ Len(Send[b]) < SendCap)
             => Send'[b] = Append(Send[b],
                     ViewerCountMsg(sid, Cardinality(Subscribers(sid)'),
                                    RegisterStep(c)))]_vars

\* C4 witness: join v1, join v2, leave v1 with producer m1 installed; the
\* first notification has been written out
C4_Witness ==
    /\ Send["m1"] = <<ViewerCountMsg("abc", 2, TRUE),
                      ViewerCountMsg("abc", 1, FALSE)>>
    /\ UnregisterDone("v1")
    /\ Subscribers("abc") = {"v2"}

\* Subscriber registrations the Hub has processed for a session
SubRegistrations(s) ==
    Cardinality({v \in Viewers : StreamID(v) = s /\ RegisterDone(v)})

\* Subscriber deregistrations the Hub has processed for a session
SubDeregistrations(s) ==
    Cardinality({v \in Viewers : StreamID(v) = s /\ UnregisterDone(v)})

\* a Producer connection of the session has been deregistered
ProducerDeregistered(s) ==
    \E c \in Mobiles : StreamID(c) = s /\ UnregisterDone(c)

\* CloseStream has run
StreamClosed == \E d \in DeleteReqs : dpc[d] = "r200"

\* C5 as stated: after any sequence of Register and Deregister calls (no
\* CloseSession), ViewerCount is the number of Subscriber registrations
\* minus the number of Subscriber deregistrations.
C5_AsStated ==
    ~StreamClosed
    => \A s \in StreamIDs :
         GetViewerCount(s) = SubRegistrations(s) - SubDeregistrations(s)

\* C5 amended: ViewerCount is the number of subscribers registered and not
\* removed since, where a subscriber is removed by its own Deregister, by the
\* Deregister of a Producer of its session, or by CloseSession; it is
\* registrations minus deregistrations as long as no Producer of the session
\* was deregistered and no CloseSession ran; it is 0 without a session; and a
\* Producer Register never changes it.
C5_ViewerCount ==
    /\ [](\A s \in StreamIDs :
            /\ GetViewerCount(s) =
                 Cardinality({v \in Viewers : /\ StreamID(v) = s
                                              /\ RegisterDone(v)
                                              /\ sendClosed[v] = "no"})
            /\ (~StreamClosed /\ ~ProducerDeregistered(s))
               => GetViewerCount(s) =
                    SubRegistrations(s) - SubDeregistrations(s)
            /\ ~HasSession(s) => GetViewerCount(s) = 0)
    /\ [][\A c \in Mobiles :
            RegisterStep(c)
            => GetViewerCount(StreamID(c))' = GetViewerCount(StreamID(c))]_vars

\* C5 witness: two subscribers registered, one deregistered, the producer
\* still registered
C5_Witness ==
    /\ RegisterDone("m1") /\ pc["m1"] = "reading"
    /\ SubRegistrations("abc") = 2 /\ SubDeregistrations("abc") = 1
    /\ GetViewerCount("abc") = 1

\* C6: CloseSession on a session closes the queue of its producer and of
\* every subscriber and removes the session, so that afterwards
\* HasActiveConnections is false and ViewerCount is 0; without a session
\* under the identifier it changes nothing.
C6_CloseSession ==
    [][\A d \in DeleteReqs :
         LET sid == DeleteTarget(d)
         IN  CloseStreamStep(d)
             => IF HasSession(sid)
                THEN /\ Producer(sid) # Nil => sendClosed'[Producer(sid)] # "no"
                     /\ \A v \in Subscribers(sid) : sendClosed'[v] # "no"
                     /\ ~HasSession(sid)'
                     /\ ~HasActiveConnections(sid)'
                     /\ GetViewerCount(sid)' = 0
                ELSE UNCHANGED <<Streams, Send, sendClosed, connClosed,
                                 bcast>>]_vars

\* C6 witness: CloseSession ran on a session of one producer and two
\* subscribers
C6_Witness ==
    /\ dpc["d1"] = "r200"
    /\ sendClosed["m1"] = "close_stream"
    /\ sendClosed["v1"] = "close_stream"
    /\ sendClosed["v2"] = "close_stream"

\* c was registered for its session and has not been deregistered
Connected(c) == RegisterDone(c) /\ ~UnregisterDone(c)

\* C7: after CloseSession(id) every connection registered for id and not
\* yet deregistered has its outbound queue closed.
C7_ClosesEveryConnection ==
    [][\A d \in DeleteReqs :
         CloseStreamStep(d)
         => \A c \in Clients :
              (StreamID(c) = DeleteTarget(d) /\ Connected(c))
              => sendClosed'[c] # "no"]_vars

\* C8: a subscriber whose connection CloseSession closed has had a
\* stream_closed message written to its socket.
C8_StreamClosedNotice ==
    \A v \in Viewers : sendClosed[v] = "close_stream" => notified[v]

Evicted(c) ==
    /\ ~Member(c)
    /\ sendClosed[c] # "no"
    /\ IsMobile(c) => sendClosed[c] = "close_stream"

\* C10: the Deregister of a connection that was already evicted from its
\* session changes neither the session map nor any queue.
C10_DeregisterUnregistered ==
    [][\A c \in Clients :
         (UnregisterStep(c) /\ Evicted(c))
         => UNCHANGED <<Streams, Send, sendClosed>>]_vars

----------------------------------------------------------------------------
\* the producer connections of a session: registered, not deregistered
ProducerConnections(s) == {c \in Mobiles : StreamID(c) = s /\ Connected(c)}

\* C11: a session never has two producer connections, and a producer
\* Register replaces the producer reference of the session only when the
\* prior producer's Deregister has been processed.
C11_SingleProducer ==
    /\ [](\A s \in StreamIDs : Cardinality(ProducerConnections(s)) <= 1)
    /\ [][\A c \in Mobiles :
            LET b == Producer(StreamID(c))
            IN  (RegisterStep(c) /\ b # Nil /\ b # c) => UnregisterDone(b)]_vars

----------------------------------------------------------------------------
(* What the properties of the sweep read off a step.                       *)

\* the step of a sweep tick that runs Find
FindStep == sweep.pc = "idle" /\ sweep'.pc = "loop"

\* the step of a sweep tick that examines the next candidate
CheckStep == sweep.pc = "loop" /\ sweep' # sweep /\ sweep'.pc # "idle"

\* the steps of autoCancelStream: the store update succeeds, it fails,
\* CloseStream
MarkStep == sweep.pc = "cancel" /\ sweep'.pc = "close"

MarkFailsStep == sweep.pc = "cancel" /\ sweep'.pc = "loop"

SweepCloseStep == sweep.pc = "close" /\ sweep'.pc = "loop"

\* the candidate a sweep tick is at
Candidate == Head(sweep.streamsToCancel)

\* the timestamp the sweep compares: the last connection, or the creation
\* when no connection was ever recorded
Stamp(s) ==
    IF lastConnectionAt[s] # NoTime THEN lastConnectionAt[s] ELSE createdAt[s]

\* C12: the candidates of a sweep tick with cutoff T = now - timeout are the
\* streams that are open and not deleted with a timestamp strictly older
\* than T when the tick queries the store, each once; the tick marks deleted
\* and closes only the candidate it is at, and only after
\* HasActiveConnections was false for it; a candidate for which it is true
\* is dropped from the tick with the store untouched and a timestamp
\* refresh started.
C12_SweepEvicts ==
    /\ [][FindStep
          => /\ sweep'.cutoffTime = now - InactiveStreamTimeout
             /\ \A i \in DOMAIN sweep'.streamsToCancel :
                  LET s == sweep'.streamsToCancel[i]
                  IN  /\ db[s] = "active"
                      /\ Stamp(s) < sweep'.cutoffTime
                      /\ \A j \in DOMAIN sweep'.streamsToCancel :
                           sweep'.streamsToCancel[j] = s => j = i]_vars
    /\ [][CheckStep
          => IF HasActiveConnections(Candidate)
             THEN /\ sweep'.pc = "loop"
                  /\ sweep'.streamsToCancel = Tail(sweep.streamsToCancel)
                  /\ touch'[Candidate] = touch[Candidate] + 1
                  /\ UNCHANGED <<db, Streams, sendClosed, connClosed>>
             ELSE /\ sweep'.pc = "cancel"
                  /\ sweep'.streamsToCancel = sweep.streamsToCancel
                  /\ UNCHANGED <<db, Streams, sendClosed, connClosed, touch>>]_vars
    /\ [][MarkStep
          => /\ db' = [db EXCEPT ![Candidate] = "deleted"]
             /\ sweep'.streamsToCancel = sweep.streamsToCancel]_vars
    /\ [][SweepCloseStep
          => /\ Candidate \notin DOMAIN Streams'
             /\ \A s \in StreamIDs \ {Candidate} :
                  (s \in DOMAIN Streams') = HasSession(s)
             /\ sweep'.streamsToCancel = Tail(sweep.streamsToCancel)]_vars
    /\ [][(sweep.pc # "cancel" /\ ~(\E d \in DeleteReqs : dpc[d] = "found"))
          => db' = db \/ \E s \in StreamIDs : db[s] = "absent" /\ db'[s] = "active"]_vars

\* C12 witness: at time 2 a tick with cutoff 1 has evicted xyz, created at 0
\* and never connected to, and has skipped abc, created at 0 with its
\* producer connected since, whose timestamp was then refreshed
C12_Witness ==
    /\ now = 2 /\ sweep = NoSweep
    /\ db["xyz"] = "deleted" /\ pc["v3"] = "none"
    /\ db["abc"] = "active" /\ Connected("m1") /\ Producer("abc") = "m1"
    /\ lastConnectionAt["abc"] = 2

\* C13: no CloseSession issued by the sweep closes the outbound queue of a
\* connection.
C13_SweepCutsNoConnection ==
    [][SweepCloseStep => sendClosed' = sendClosed]_vars

\* C20: when the store update of autoCancelStream fails for a candidate, the
\* store, the session map and every connection stay as they are (no
\* CloseSession), the tick goes on with the remaining candidates, and a tick
\* ends only when no candidate is left; a tick's candidates are all the
\* streams that match the filter, so the unchanged record matches again.
C20_SweepFailureContinues ==
    /\ [][MarkFailsStep
          => /\ sweep'.pc = "loop"
             /\ sweep'.streamsToCancel = Tail(sweep.streamsToCancel)
             /\ UNCHANGED <<db, createdAt, lastConnectionAt, Streams, Send,
                            sendClosed, connClosed>>]_vars
    /\ [][(sweep.pc # "idle" /\ sweep'.pc = "idle")
          => sweep.streamsToCancel = << >>]_vars
    /\ [][FindStep
          => \A s \in StreamIDs :
               (db[s] = "active" /\ Stamp(s) < now - InactiveStreamTimeout)
               => \E i \in DOMAIN sweep'.streamsToCancel :
                    sweep'.streamsToCancel[i] = s]_vars

\* C20 witness: a tick with cutoff 1 found abc and xyz, both created at 0
\* and never connected to; the update of abc failed (abc is still open) and
\* the tick is at xyz
C20_Witness ==
    /\ sweep.pc \in {"loop", "cancel"} /\ sweep.cutoffTime = 1
    /\ sweep.streamsToCancel = <<"xyz">>
    /\ db["abc"] = "active" /\ createdAt["abc"] = 0 /\ createdAt["xyz"] = 0
    /\ pc["m1"] = "none" /\ pc["v3"] = "none"
    /\ touch["abc"] = 0 /\ lastConnectionAt["abc"] = NoTime

----------------------------------------------------------------------------
\* the step of BroadcastToViewers that looks the StreamHub up and finds it
LookupStep(c) == pc[c] = "reading" /\ pc'[c] = "bcast"

\* the step of BroadcastToViewers that runs the loop over the viewers
LoopStep(c) == pc[c] = "bcast" /\ pc'[c] = "reading"

\* C14: a Fanout goes past the lookup only when the session exists, and the
\* lookup itself changes neither the session map nor a queue; a Fanout whose
\* session has no subscriber changes neither the session map nor any queue
\* and raises no panic.
C14_FanoutNoOp ==
    /\ [][\A c \in Clients :
            LookupStep(c)
            => /\ HasSession(StreamID(c))
               /\ UNCHANGED <<Streams, Send, sendClosed, connClosed, panic>>]_vars
    /\ [][\A c \in Clients :
            (LoopStep(c) /\ Subscribers(StreamID(c)) = {})
            => UNCHANGED <<Streams, Send, sendClosed, connClosed, panic>>]_vars

\* C14 witness: the producer of abc fans a message out, has found the
\* session, which has no subscriber, and is at the loop
C14_Witness ==
    /\ pc["m1"] = "bcast" /\ bcast["m1"].ptr = "live"
    /\ Producer("abc") = "m1" /\ Subscribers("abc") = {}

\* C15: when the loop of a Fanout meets a full queue, that queue is left as
\* it is, every other subscriber with room gets the message appended, and
\* the session map (producer and subscribers), the producer's queue and the
\* state of every channel and connection stay as they are.
C15_FullQueueDropsForOne ==
    [][\A c \in Clients :
         (LoopStep(c)
          /\ \E x \in C3_Recipients(c) : Len(Send[x]) = SendCap)
         => /\ \A x \in C3_Recipients(c) :
                 Send'[x] = IF Len(Send[x]) = SendCap THEN Send[x]
                            ELSE Append(Send[x], bcast[c].msg)
            /\ Send'[c] = Send[c]
            /\ UNCHANGED <<Streams, sendClosed, connClosed, panic>>]_vars

\* C15 witness: a Fanout to abc is at its loop with the queue of v1 full and
\* room in the queue of v2
C15_Witness ==
    /\ pc["m1"] = "bcast" /\ bcast["m1"].ptr = "live"
    /\ Subscribers("abc") = {"v1", "v2"}
    /\ Len(Send["v1"]) = SendCap /\ Len(Send["v2"]) < SendCap
    /\ sendClosed["v1"] = "no" /\ sendClosed["v2"] = "no"

\* C16: the queue of a producer changes only at its ends: WritePump takes
\* the message at the head, and the Hub, processing one subscriber join or
\* leave at a time, appends the notification of that join or leave at the
\* tail; so the notifications leave in the order the Hub processed the joins
\* and leaves.
C16_NotificationOrder ==
    [][\A b \in Mobiles :
         \/ Send'[b] = Send[b]
         \/ Send[b] # << >> /\ Send'[b] = Tail(Send[b])
         \/ \E v \in Viewers :
              /\ RegisterStep(v) \/ UnregisterStep(v)
              /\ Producer(StreamID(v)) = b
              /\ Send'[b] =
                   Append(Send[b],
                          ViewerCountMsg(StreamID(v),
                                         Cardinality(Subscribers(StreamID(v))'),
                                         RegisterStep(v)))]_vars

\* C16 witness: the joins of v1 and v2 were processed in this order and the
\* producer's queue holds their notifications in this order
C16_Witness ==
    /\ Send["m1"] = <<ViewerCountMsg("abc", 1, TRUE),
                      ViewerCountMsg("abc", 2, TRUE)>>
    /\ Subscribers("abc") = {"v1", "v2"} /\ Producer("abc") = "m1"

\* C18: a Register for an identifier that has no session adds a session that
\* holds exactly the registered connection and leaves every other session as
\* it is, in whatever order the Hub receives the requests.
C18_DistinctSessions ==
    [][\A c \in Clients :
         (RegisterStep(c) /\ ~HasSession(StreamID(c)))
         => /\ DOMAIN Streams' = DOMAIN Streams \cup {StreamID(c)}
            /\ \A s \in DOMAIN Streams : Streams'[s] = Streams[s]
            /\ Streams'[StreamID(c)] =
                 IF IsMobile(c) THEN [Broadcaster |-> c, Viewers |-> {}]
                 ELSE [Broadcaster |-> Nil, Viewers |-> {c}]
            /\ ~panic']_vars

\* C18 witness: the handlers of m1 (abc) and v3 (xyz) were both waiting to
\* register; both requests were processed and each session holds its
\* connection
C18_Witness ==
    /\ DOMAIN Streams = {"abc", "xyz"}
    /\ Streams["abc"] = [Broadcaster |-> "m1", Viewers |-> {}]
    /\ Streams["xyz"] = [Broadcaster |-> Nil, Viewers |-> {"v3"}]
    /\ pc["v1"] = "admitted"
    /\ hub = <<"idle", Nil>>

----------------------------------------------------------------------------
\* the steps of DeleteStreamHandler: the answer to FindOne, the update
DeleteCheckStep(d) == dpc[d] = "idle" /\ dpc'[d] # "idle"

DeleteUpdateStep(d) == dpc[d] = "found" /\ dpc'[d] = "updated"

\* C17: a DELETE of an absent stream is answered 404 and one of a deleted
\* stream 400, both leaving the store and the Hub as they are and ending
\* there; a DELETE marks a stream deleted only when the stream is not yet
\* deleted at that moment, and CloseSession runs only after that, also with
\* two DELETE requests for the same stream under way.
C17_DeleteOnlyOnce ==
    /\ [][\A d \in AllDeleteReqs :
            DeleteCheckStep(d)
            => /\ db[DeleteTarget(d)] = "absent"  => dpc'[d] = "r404"
               /\ db[DeleteTarget(d)] = "deleted" => dpc'[d] = "r400"
               /\ db[DeleteTarget(d)] = "active"  => dpc'[d] = "found"
               /\ UNCHANGED <<db, Streams, Send, sendClosed, connClosed>>]_vars
    /\ [][\A d \in AllDeleteReqs :
            dpc[d] \in {"r404", "r400"} => dpc'[d] = dpc[d]]_vars
    /\ [][\A d \in AllDeleteReqs :
            CloseStreamStep(d) => db[DeleteTarget(d)] = "deleted"]_vars
    /\ [][\A d \in AllDeleteReqs :
            DeleteUpdateStep(d) => db[DeleteTarget(d)] = "active"]_vars

\* C19: once ReadPump has left its loop on a read error, it never reads
\* again, and the Deregister of the connection is submitted and processed by
\* the Hub.
C19_ErrorEndsInDeregister ==
    /\ [][\A c \in Clients :
            pc[c] \in {"exiting", "done"} => pc'[c] \in {"exiting", "done"}]_vars
    /\ \A c \in Clients : (pc[c] = "exiting") ~> (pc[c] = "done")
    /\ \A c \in Clients : (pc[c] = "exiting") ~> UnregisterDone(c)

\* C19 witness: the ReadPump of the producer and of a subscriber both ended
\* on an error and both Deregisters have been processed
C19_Witness ==
    /\ UnregisterDone("m1") /\ UnregisterDone("v1")
    /\ sendClosed["v1"] = "unregister"
    /\ ~HasSession("abc")

----------------------------------------------------------------------------
\* a producer connection whose Register was processed and that is not the
\* installed producer of its session: overwritten by a later producer, or
\* evicted
Superseded(c) == IsMobile(c) /\ RegisterDone(c) /\ Producer(StreamID(c)) # c

\* the step closes the connection of c from one of its own pumps: the
\* deferred Conn.Close() of ReadPump or of WritePump
OwnClose(c) ==
    \/ pc[c] = "exiting" /\ pc'[c] = "done"
    \/ ~wexit[c] /\ wexit'[c]

\* C21: the Register of a second producer overwrites the producer reference
\* and leaves the first producer as it is (queue open and unchanged,
\* connection open, no Deregister submitted); a producer that is not the
\* installed one gets nothing enqueued from then on, its queue is never
\* closed, and its connection is closed only by its own pumps.
C21_SupersededProducerLeaks ==
    /\ [][\A c \in Mobiles, old \in Mobiles :
            (RegisterStep(c) /\ old # c /\ Producer(StreamID(c)) = old)
            => /\ Producer(StreamID(c))' = c
               /\ Send'[old] = Send[old]
               /\ sendClosed'[old] = sendClosed[old]
               /\ connClosed'[old] = connClosed[old]
               /\ pc'[old] = pc[old]
               /\ Superseded(old)']_vars
    /\ [][\A c \in Mobiles :
            Superseded(c)
            => /\ Superseded(c)'
               /\ Len(Send'[c]) <= Len(Send[c])
               /\ sendClosed'[c] = sendClosed[c]
               /\ connClosed'[c] # connClosed[c] => OwnClose(c)]_vars

\* C21 witness: m2 has overwritten m1, which is still reading with its queue
\* open and empty, while the viewer_count of a subscriber that registered
\* afterwards sits in the queue of m2
C21_Witness ==
    /\ Producer("abc") = "m2"
    /\ Superseded("m1") /\ pc["m1"] = "reading"
    /\ sendClosed["m1"] = "no" /\ ~connClosed["m1"]
    /\ Send["m1"] = << >>
    /\ Send["m2"] = <<ViewerCountMsg("abc", 1, TRUE)>>

----------------------------------------------------------------------------
\* the Send channel of c is full
Full(c) == Len(Send[c]) = SendCap

\* C22: no Send channel ever holds more than SendCap messages; while a
\* channel is full every step leaves its content as it is or takes its
\* oldest message out for writing, so a message Fanout or a viewer_count
\* notification tries to enqueue is the one dropped; and the fan-out or the
\* Register or Deregister that met the full channel completes.
C22_QueueBounded ==
    /\ [](\A c \in Clients : Len(Send[c]) <= SendCap)
    /\ [][\A c \in Clients :
            Full(c) => Send'[c] = Send[c] \/ Send'[c] = Tail(Send[c])]_vars
    /\ [][\A p \in Mobiles, v \in Viewers :
            (LoopStep(p) /\ v \in BroadcastTargets(p) /\ Full(v))
            => Send'[v] = Send[v] /\ pc'[p] = "reading"]_vars
    /\ [][\A v \in Viewers :
            ((RegisterStep(v) \/ UnregisterStep(v))
             /\ Producer(StreamID(v)) # Nil /\ Full(Producer(StreamID(v))))
            => Send'[Producer(StreamID(v))] = Send[Producer(StreamID(v))]]_vars

\* C22 witness: a fan-out is under way to a subscriber whose channel is
\* full, while the channel of the producer is full of notifications
C22_Witness ==
    /\ pc["m1"] = "bcast" /\ bcast["m1"].ptr = "live"
    /\ "v2" \in BroadcastTargets("m1") /\ Full("v2")
    /\ Producer("abc") = "m1" /\ Full("m1")
    /\ \A i \in DOMAIN Send["m1"] : Send["m1"][i].Type = "viewer_count"

\* C23: the Register of a subscriber that finds the channel of the producer
\* full completes: the subscriber is in the subscriber set, ViewerCount is
\* one higher, and the channel of the producer is as it was (the viewer_count
\* is dropped).
C23_RegisterOnFullProducer ==
    [][\A v \in Viewers :
         (RegisterStep(v) /\ Producer(StreamID(v)) # Nil
          /\ Full(Producer(StreamID(v))))
         => /\ v \in Subscribers(StreamID(v))'
            /\ GetViewerCount(StreamID(v))' = GetViewerCount(StreamID(v)) + 1
            /\ Send'[Producer(StreamID(v))] = Send[Producer(StreamID(v))]
            /\ Producer(StreamID(v))' = Producer(StreamID(v))
            /\ ~panic']_vars

\* C23 witness: v1 came and went, which filled the channel of m1; v2 is
\* registered and the channel of m1 still holds those two notifications,
\* none for v2
C23_Witness ==
    /\ Producer("abc") = "m1"
    /\ RegisterDone("v2") /\ Subscribers("abc") = {"v2"}
    /\ Send["m1"] = <<ViewerCountMsg("abc", 1, TRUE),
                      ViewerCountMsg("abc", 0, FALSE)>>

\* C24: a Deregister that finds no session issues no lastConnectionAt
\* update; one that finds a session issues exactly one, for that stream,
\* exactly when it leaves the session without producer and subscribers, and
\* then the session is gone from the map in the same step.
C24_LastConnectionOnEmpty ==
    [][\A c \in Clients :
         UnregisterStep(c)
         => LET sid == StreamID(c)
            IN  /\ \A s \in StreamIDs \ {sid} : touch'[s] = touch[s]
                /\ ~HasSession(sid) => touch' = touch
                /\ HasSession(sid)
                   => /\ touch'[sid] \in {touch[sid], touch[sid] + 1}
                      /\ (touch'[sid] = touch[sid] + 1) = ~HasSession(sid)'
                      /\ HasSession(sid)'
                         => Producer(sid)' # Nil \/ Subscribers(sid)' # {}]_vars

\* C24 witness: v1 left while m1 stayed (no update), then m1 left and the
\* session went with it (one update)
C24_Witness ==
    /\ UnregisterDone("v1") /\ UnregisterDone("m1")
    /\ sendClosed["v1"] = "unregister"
    /\ ~HasSession("abc")
    /\ touch["abc"] = 1

----------------------------------------------------------------------------
\* a well-formed stream_data envelope
IsStreamData(m) == m.Valid /\ m.Type = "stream_data"

\* the step of ReadPump that starts updateStreamData for stream s
PersistStep(s) == ~(updates'[s] \subseteq updates[s])

\* C25: only a well-formed stream_data envelope read on a producer
\* connection starts a fan-out or an updateStreamData: a BroadcastToViewers
\* call is always one of a producer with such a message, and starts together
\* with the store update of its payload; an update is started only by a
\* reading producer of that stream; a subscriber's queue grows only by the
\* message of a fan-out; and latestData changes only to a payload handed to
\* updateStreamData.
C25_OnlyStreamDataRelayed ==
    /\ [](\A c \in Clients :
            bcast[c].ptr # "none" => IsMobile(c) /\ IsStreamData(bcast[c].msg))
    /\ [][\A c \in Clients :
            LookupStep(c)
            => /\ IsMobile(c) /\ IsStreamData(bcast'[c].msg)
               /\ bcast'[c].msg.Data \in updates'[StreamID(c)]]_vars
    /\ [][\A s \in StreamIDs :
            PersistStep(s)
            => /\ \E c \in Mobiles : StreamID(c) = s /\ pc[c] = "reading"
               /\ updates'[s] \ updates[s] \subseteq Payloads]_vars
    /\ [][\A v \in Viewers :
            Len(Send'[v]) > Len(Send[v])
            => \E p \in Mobiles :
                 /\ LoopStep(p)
                 /\ Send'[v] = Append(Send[v], bcast[p].msg)]_vars
    /\ [][\A s \in StreamIDs :
            latestData'[s] # latestData[s] => latestData'[s] \in updates[s]]_vars

\* C25 witness: a stream_data envelope of the producer was stored and is in
\* the queue of the subscriber, and both connections are still reading
C25_Witness ==
    /\ latestData["abc"] = "p1"
    /\ Send["v1"] # << >> /\ Head(Send["v1"]) = StreamDataMsg("p1")
    /\ pc["m1"] = "reading" /\ pc["v1"] = "reading"

\* the step in which logStreamLeave issues its UpdateOne for c
LeaveWriteStep(c) ==
    leaveLog[c] = "pending" /\ leaveLog'[c] \in {"written", "failed"}

\* the step in which logStreamLeave of c runs
LeaveRunStep(c) == leaveLog[c] = "pending" /\ leaveLog'[c] # "pending"

\* C29: logStreamLeave issues its UpdateOne only for a connection whose
\* JoinLogID is stored; when it runs before that, or after a failed
\* InsertOne, it writes nothing; and it is started only by the Deregister
\* of a subscriber.
C29_LeaveOnlyAfterJoin ==
    /\ [][\A c \in Clients : LeaveWriteStep(c) => joinLog[c] = "stored"]_vars
    /\ [][\A c \in Clients :
            (LeaveRunStep(c) /\ joinLog[c] # "stored")
            => leaveLog'[c] \in {"skipped", "crashed"}]_vars
    /\ [][\A c \in Clients :
            (leaveLog[c] = "none" /\ leaveLog'[c] # "none")
            => ~IsMobile(c) /\ UnregisterStep(c) /\ leaveLog'[c] = "pending"]_vars

\* C29 witness: the join of v1 was recorded and its leave written
C29_Witness ==
    /\ joinLog["v1"] = "stored"
    /\ leaveLog["v1"] = "written"
    /\ UnregisterDone("v1")

----------------------------------------------------------------------------
\* the session streamID refers to c, as its producer or as a subscriber
Refers(streamID, c) ==
    HasSession(streamID)
    /\ (Streams[streamID].Broadcaster = c \/ c \in Streams[streamID].Viewers)

\* C27: a connection is referred to by the session of its own StreamID
\* only, so by one session at most; the producer reference of a session is a
\* producer connection and its subscribers are subscriber connections, so no
\* subscriber is a producer reference.
C27_OneSessionPerConnection ==
    /\ \A c \in Clients, s \in StreamIDs : Refers(s, c) => s = StreamID(c)
    /\ \A c \in Clients :
         Cardinality({s \in StreamIDs : Refers(s, c)}) <= 1
    /\ \A s \in DOMAIN Streams :
         /\ Streams[s].Broadcaster # Nil => IsMobile(Streams[s].Broadcaster)
         /\ \A v \in Streams[s].Viewers : ~IsMobile(v)
         /\ Streams[s].Broadcaster \notin Streams[s].Viewers

\* C27 witness: two sessions at once, a producer in one and a subscriber in
\* the other
C27_Witness ==
    /\ Refers("abc", "m1") /\ Refers("xyz", "v3")
    /\ RegisterDone("m1") /\ RegisterDone("v3")

\* C30: Hub.Run holds one request at a time and finishes it before or as
\* it takes the next, and the Deregister of a connection is received and
\* processed only after the Register of that connection was processed,
\* also when its ReadPump failed before that.
C30_SerialRequests ==
    /\ [][hub # <<"idle", Nil>> => hub' = hub \/ hub' = <<"idle", Nil>>]_vars
    /\ [](\A c \in Clients : hub = <<"unregister", c>> => RegisterDone(c))
    /\ [][\A c \in Clients :
            (pc[c] = "exiting" /\ pc'[c] = "done")
            => RegisterDone(c) /\ hub = <<"idle", Nil>>
               /\ hub' = <<"unregister", c>>]_vars
    /\ [][\A c \in Clients : UnregisterStep(c) => RegisterDone(c)]_vars

\* C30 witness: the ReadPump of v1 has failed while Hub.Run is still
\* processing the Register of v1
C30_Witness ==
    /\ hub = <<"register", "v1">>
    /\ pc["v1"] = "exiting"

----------------------------------------------------------------------------
\* the step in which WritePump takes the oldest message of c out of its
\* queue to write it
DequeueStep(c) == Send[c] # << >> /\ Send'[c] = Tail(Send[c])

\* the step in which the fan-out of producer p enqueues its message for v,
\* a subscriber of the session of p at that moment
FanoutEnqueueStep(p, v) ==
    /\ LoopStep(p)
    /\ v \in BroadcastTargets(p)
    /\ Send'[v] = Append(Send[v], bcast[p].msg)

\* C28: the queue of a subscriber changes only by losing its oldest message
\* to WritePump or by gaining, at its end and once, the message a producer of
\* its session fans out while it is a subscriber; WritePump takes messages
\* out only when started and not returned.  What is written is therefore an
\* order-preserving subsequence of what was fanned out, with no duplicate.
C28_OrderPreserved ==
    /\ [][\A v \in Viewers :
            \/ Send'[v] = Send[v]
            \/ DequeueStep(v) /\ Started(v) /\ ~wexit[v]
            \/ \E p \in Mobiles :
                 FanoutEnqueueStep(p, v) /\ StreamID(p) = StreamID(v)]_vars
    /\ [][\A p \in Mobiles, v \in Viewers :
            (LoopStep(p) /\ v \notin BroadcastTargets(p)) => Send'[v] = Send[v]]_vars

\* C28 witness: two different messages of the producer are queued for the
\* subscriber in the order they were fanned out, and a further fan-out to
\* the subscriber is under way
C28_Witness ==
    /\ Send["v1"] = <<StreamDataMsg("p2"), StreamDataMsg("p1")>>
    /\ pc["m1"] = "bcast" /\ bcast["m1"].msg = StreamDataMsg("p2")
    /\ "v1" \in BroadcastTargets("m1")

----------------------------------------------------------------------------
\* the step in which WritePump of c returns
WritePumpExitStep(c) == ~wexit[c] /\ wexit'[c]

\* C26: a connection whose Send was closed has its WritePump return in the
\* end; a WritePump that has returned has closed the connection, and the
\* ReadPump of that connection then leaves its loop; and the return after
\* the closing of Send is the one that found the queue drained and wrote the
\* close frame on a connection still open.
C26_ClosedQueueDrains ==
    /\ \A c \in Clients : (sendClosed[c] # "no") ~> wexit[c]
    /\ [](\A c \in Clients : wexit[c] => connClosed[c])
    /\ \A c \in Clients : wexit[c] ~> (pc[c] \in {"exiting", "done"})
    /\ [][\A c \in Clients :
            (sendClosed[c] # "no" /\ WritePumpExitStep(c))
            => Send[c] = << >> /\ ~connClosed[c]]_vars

----------------------------------------------------------------------------
\* the step is a CloseStream call for streamID, of a DELETE request or of
\* the cleanup job
CloseSessionStep(streamID) ==
    \/ \E d \in AllDeleteReqs : CloseStreamStep(d) /\ DeleteTarget(d) = streamID
    \/ SweepCloseStep /\ Head(sweep.streamsToCancel) = streamID

\* C31: the installed producer of a session stays installed, in a session
\* that exists, until its own Deregister, the Register of a later producer
\* of the session or a CloseSession of the session is processed; the
\* Deregister of another connection never removes it.
C31_ProducerNotOrphaned ==
    [][\A c \in Mobiles :
         (Producer(StreamID(c)) = c /\ Producer(StreamID(c))' # c)
         => \/ UnregisterStep(c)
            \/ \E c2 \in Mobiles \ {c} : RegisterStep(c2)
            \/ CloseSessionStep(StreamID(c))]_vars

\* C32: once a DELETE has marked the stream deleted and its CloseStream has
\* returned, h.Streams has no entry for the stream, whatever connection
\* attempts were admitted before.
C32_NoSessionAfterDelete ==
    \A d \in AllDeleteReqs :
        dpc[d] = "r200" => ~HasSession(DeleteTarget(d))

----------------------------------------------------------------------------
\* the channels the step sends on: those of the viewers a fan-out loop
\* ranges over, and that of the broadcaster a viewer's Register or
\* Deregister notifies
SentOn ==
    UNION ({BroadcastTargets(p) : p \in {x \in Mobiles : LoopStep(x)}}
           \cup {NotifyTargets(RegisteredHub(v)) :
                   v \in {x \in Viewers : RegisterStep(x)}}
           \cup {NotifyTargets(UnregisteredHub(v)) :
                   v \in {x \in Viewers : UnregisterStep(x)
                                          /\ HasSession(StreamID(x))}})

\* the channels the step closes: those unregisterClient or CloseStream
\* closes
ClosedBy ==
    UNION ({UnregisterCloses(c) :
              c \in {x \in Clients : UnregisterStep(x)
                                     /\ HasSession(StreamID(x))}}
           \cup {CloseStreamCloses(s) :
                   s \in {x \in StreamIDs : CloseSessionStep(x)}})

\* C33: no fan-out and no viewer_count notification sends on a Send channel
\* that was closed, so no step panics on a send.
C33_NoSendOnClosed ==
    /\ [][\A c \in SentOn : sendClosed[c] = "no"]_vars
    /\ [][(LoopStep("m1") \/ \E v \in Viewers : RegisterStep(v) \/ UnregisterStep(v))
          => ~panic']_vars

\* C33 witness: a fan-out is under way with a StreamHub that was taken out
\* of the map meanwhile, the channel of its former viewer closed
C33_Witness ==
    /\ pc["m1"] = "bcast" /\ bcast["m1"].ptr = "detached"
    /\ sendClosed["v1"] # "no"
    /\ RegisterDone("v1")

\* C34: a Send channel that was closed is never closed again: every
\* Deregister and every CloseSession closes only channels that are open, and
\* no step panics on a close.
C34_ClosedOnce ==
    /\ [][\A c \in ClosedBy : sendClosed[c] = "no" /\ sendClosed'[c] # "no"]_vars
    /\ [][\A c \in Clients :
            sendClosed[c] # "no" => sendClosed'[c] = sendClosed[c]]_vars
    /\ [][((\E c \in Clients : UnregisterStep(c))
           \/ \E s \in StreamIDs : CloseSessionStep(s)) => ~panic']_vars

\* C34 witness: the subscriber was evicted by CloseSession and its own
\* Deregister was processed afterwards, as was a second CloseSession
C34_Witness ==
    /\ sendClosed["v1"] = "close_stream"
    /\ UnregisterDone("v1")
    /\ dpc["d1"] = "r200" /\ dpc["d2"] = "r200"

----------------------------------------------------------------------------
\* C36: once WritePump of a connection has returned, its ReadPump returns,
\* and once ReadPump has left its loop, WritePump returns; the Deregister
\* of a producer leaves the producer's own queue as it is, so its WritePump
\* returns on a failed write, not on a closed queue.
C36_PumpsExitTogether ==
    /\ \A c \in FewClients : wexit[c] ~> (pc[c] = "done")
    /\ \A c \in FewClients : (pc[c] \in {"exiting", "done"}) ~> wexit[c]
    /\ [][\A c \in Mobiles :
            UnregisterStep(c) => sendClosed'[c] = sendClosed[c]]_vars

\* C36 witness: the producer's ReadPump has returned and its Deregister was
\* processed, its queue was never closed, and its WritePump has returned
C36_Witness ==
    /\ pc["m1"] = "done" /\ UnregisterDone("m1")
    /\ sendClosed["m1"] = "no"
    /\ wexit["m1"]

----------------------------------------------------------------------------
\* C37: a subscriber whose join log document is stored and that is no
\* longer a member of its session eventually has logStreamLeave issue the
\* UpdateOne of leftAt for it, however it stopped being a member.
C37_JoinHasLeave ==
    \A v \in Viewers :
        (joinLog[v] = "stored" /\ RegisterDone(v) /\ ~Member(v))
        ~> (leaveLog[v] \in {"written", "failed"})

----------------------------------------------------------------------------
\* the newest message in the Send channel of producer c is a viewer_count
\* with the number of subscribers its session has
Told(c) ==
    /\ Send[c] # << >>
    /\ Send[c][Len(Send[c])].Type = "viewer_count"
    /\ Send[c][Len(Send[c])].ViewerCount = Cardinality(Subscribers(StreamID(c)))

\* the Register or Deregister of a subscriber that leaves its session with a
\* producer, whose channel has room, and a subscriber
CountedStep(v) ==
    /\ RegisterStep(v) \/ (UnregisterStep(v) /\ HasSession(StreamID(v)))
    /\ Producer(StreamID(v))' # Nil
    /\ Subscribers(StreamID(v))' # {}
    /\ Len(Send[Producer(StreamID(v))']) < SendCap

\* C38: a Register or Deregister of a subscriber that leaves the session
\* with a producer and a subscriber, the producer's channel having room,
\* puts a viewer_count with the session's subscriber count last in the
\* producer's channel; and so does the Register of a producer into a session
\* that has subscribers.
C38_ProducerKnowsCount ==
    /\ [][\A v \in Viewers :
            CountedStep(v) => Told(Producer(StreamID(v)))']_vars
    /\ [][\A m \in Mobiles :
            (RegisterStep(m) /\ Subscribers(StreamID(m)) # {})
            => Told(m)']_vars

----------------------------------------------------------------------------
\* C39: of the WebSocket objects the useWebSocket hook has created, at most
\* one is OPEN or CONNECTING.
C39_OneLiveSocket == Cardinality(LiveSockets) <= 1

----------------------------------------------------------------------------
\* a goroutine is in a Hub operation or blocked in a send to Hub.Run
Busy(t) == lk.ops[t] # << >>

\* C35: every goroutine that has begun a Hub operation (a send on
\* h.Register or h.Unregister, registerClient or unregisterClient in
\* Hub.Run, BroadcastToViewers, GetViewerCount, HasActiveConnections,
\* CloseStream) completes it: each send is received, each lock is acquired
\* and released.
C35_NoDeadlock ==
    \A t \in Threads : Busy(t) ~> ~Busy(t)

\* C35 witness: Hub.Run is in unregisterClient with h.mu held and waits for
\* streamHub.mu, which a fan-out holds shared, while CloseStream and a
\* query wait for h.mu and a handler waits to send its Register
C35_Witness ==
    /\ lk.h.w = "run" /\ At("run", "acquire", "s")
    /\ "mobile" \in lk.s.readers
    /\ At("delete", "announce", "h")
    /\ At("query", "rlock", "h")
    /\ At("viewer", "send", "Register")

====
